---- MODULE Spec2Model ----
(***************************************************************************)
(* Apex Wealth Advisor: the Auth0 Token Vault client (auth/token_vault.py), *)
(* the Okta cross-app-access exchanger (auth/okta_cross_app_access.py),    *)
(* the tool-calling loop (services/claude_service.py) and the chat          *)
(* endpoint (api/main.py), as state machines.                              *)
(*                                                                         *)
(* The specifications share the variables:                                 *)
(*   SpecVault  calls on one TokenVaultClient, in any order                *)
(*   SpecProc   one ClaudeService.process_message call                     *)
(*   SpecChat   one POST /api/chat turn                                    *)
(*   SpecMCP    calls on WealthMCP, directly and through POST /call_tool   *)
(*   SpecTurns  two requests whose STEP 3 uses the one TokenVaultClient    *)
(*   SpecScope  calls of detect_required_scope, one after another          *)
(*   SpecXaa    calls of the exchange methods of one XAA manager           *)
(*   SpecTrace  the response chat assembles from a turn's tokens           *)
(***************************************************************************)
EXTENDS Integers, Sequences, FiniteSets, TLC

VARIABLES
    \* ---- TokenVaultClient (auth/token_vault.py)
    vaultConfigured,          \* is_configured(): the AUTH0_* settings are present
    vault_token,              \* self._vault_token
    vault_token_expires_at,   \* self._vault_token_expires_at
    now,                      \* time.time(), in seconds
    netA,                     \* Step A requests.post calls made so far (tokens are numbered by it)
    lastA,                    \* the latest exchange_okta_token_for_vault_token call
    lastB,                    \* the latest get_connection_token call
    lastC,                    \* the latest client call, when it was get_google_token
                              \* or get_salesforce_token
    \* ---- ClaudeService.process_message (services/claude_service.py)
    pmPc,                     \* "idle" | "loop" | "done"
    pmIn,                     \* the arguments of the call
    response,                 \* the oracle's latest response
    messages,                 \* the conversation sent to the oracle
    tools_called,
    xaa_tools_called,
    vault_tools_called,
    salesforce_tools_called,
    tool_results,             \* results of the current round
    backendCalls,             \* every backend invocation: backend, tool, token handed over
    allResults,               \* every tool result produced in the turn, in order
    rounds,                   \* completed rounds of the while loop
    pmResult,                 \* the returned mapping
    \* ---- chat (api/main.py)
    chatPc,
    chatIn,                   \* the request: last message, X-ID-Token, environment
    user_info,
    required_scope,
    xaaInfo,                  \* mcp_token_info / google_xaa_info / salesforce_xaa_info
    xaaRequests,              \* Step 1 requests sent: audience, scope
    vaultInfo,                \* google_token_info / salesforce_token_info
    chatResult,
    \* ---- WealthMCP and its REST endpoint (mcp_server/)
    mcpReq,                   \* the latest call: entry point, tool, arguments, token
    mcpOut,                   \* what the call returned
    mcpExecuted,              \* whether a tool function was entered for it
    clientUpdates,            \* the client fields update_client has overwritten
    mcpCalls,                 \* calls made so far
    \* two requests on the event loop, at STEP 3 of chat
    turn,                     \* per request: position, XAA tokens held, the
                              \* handler's local vault token, the subject tokens
                              \* of its Step A calls, its latest Step B
    running,                  \* the request whose handler is on the event loop
                              \* (0: none)
    cacheExchange,            \* the Step A answer that last wrote the cache
    \* calls of detect_required_scope
    scopeCalls,               \* the calls made so far: query and returned scope
    \* calls of the exchange methods of one OktaCrossAppAccessManager
    xaaSdkLevel,              \* how far __init__ got in building the SDK instances
    xaaCalls,                 \* the exchanges made so far, step by step
    \* the response chat assembles after STEP 4
    traceIn,                  \* the values of chat's locals at line 327
    traceOut,                 \* the ChatResponse built from them
    \* ---- GoogleCalendarTools on its mock calendar (tools/google_calendar.py)
    mock_events,              \* self.mock_events: the events' id numbers, in order
    calReq,                   \* the latest write call: tool, event id, token, API outcome
    calOut,                   \* what it returned
    calCalls,                 \* write calls made so far
    \* the messages process_message seeds the first oracle call with
    seedIn,                   \* conversation_history
    seedOut                   \* the list built from it

vaultVars == <<vaultConfigured, vault_token, vault_token_expires_at, now, netA,
               lastA, lastB, lastC>>
pmVars == <<pmPc, pmIn, response, messages, tools_called, xaa_tools_called,
            vault_tools_called, salesforce_tools_called, tool_results,
            backendCalls, allResults, rounds, pmResult>>
chatVars == <<chatPc, chatIn, user_info, required_scope, xaaInfo, xaaRequests,
              vaultInfo, chatResult>>
mcpVars == <<mcpReq, mcpOut, mcpExecuted, clientUpdates, mcpCalls>>
turnVars == <<turn, running, cacheExchange>>
scopeVars == <<scopeCalls>>
xaaVars == <<xaaSdkLevel, xaaCalls>>
traceVars == <<traceIn, traceOut>>
calVars == <<mock_events, calReq, calOut, calCalls>>
seedVars == <<seedIn, seedOut>>
vars == <<vaultVars, pmVars, chatVars, mcpVars, turnVars, scopeVars, xaaVars, traceVars,
          calVars, seedVars>>

(***************************************************************************)
(* Tokens.  A token value is a record: its kind, the audience at the root  *)
(* of its derivation chain, a serial (distinct values differ), and the     *)
(* kind of the subject token it was exchanged for.                         *)
(***************************************************************************)
NoToken == [kind |-> "none", aud |-> "none", n |-> 0, src |-> "none"]

Audiences == {"mcp", "google", "salesforce"}

\* The audiences whose access token chat hands to the Token Vault.
VaultAudiences == {"google", "salesforce"}

Connections == {"google-oauth2", "salesforce"}

\* The authorization server a connection belongs to (api/main.py: Google AS
\* token for google-oauth2, Salesforce AS token for salesforce).
ConnectionAudience(connection) ==
    IF connection = "google-oauth2" THEN "google" ELSE "salesforce"

AccessToken(aud) == [kind |-> "aat", aud |-> aud, n |-> 0, src |-> "idjag"]

Truthy(tok) == tok.kind # "none"

(***************************************************************************)
(* TokenVaultClient                                                        *)
(***************************************************************************)
MaxTime == 60
TickStep == 30
MaxStepA == 2
SafetyMargin == 60
DefaultExpiresIn == 3600
Absent == 0 - 1

\* expires_in values the vault's token endpoint answers with (Absent: the
\* response carries no expires_in).
ExpiresInChoices == {90, Absent}

\* An expires_in that is not a number (null, or a string).
NotANumber == 0 - 2

\* What requests.post can do in Step A: 200 with a token, 200 with a token
\* and an expires_in that is not a number, 200 without an access_token, a
\* non-200 answer, a timeout (any other exception takes the same path as a
\* timeout: logged, None returned).
StepAResponses ==
    [kind : {"ok"}, expires_in : ExpiresInChoices \cup {NotANumber}]
    \cup [kind : {"ok_no_token", "denied", "timeout"}, expires_in : {Absent}]

\* Step B: 200, a non-200 answer saying the user has not linked the
\* connection, a timeout.
StepBResponses == {"ok", "not_linked", "timeout"}

NoCall == [called |-> FALSE]

\* The client's cache as a value, so that the two-step composites can thread it.
Cache(tok, exp) == [vault_token |-> tok, expires_at |-> exp]

\* exchange_okta_token_for_vault_token(okta_token) answered by resp at time t,
\* the next serial being n: the cache after it, the value returned, whether a
\* network call was made.
ExchangeOktaTokenForVaultToken(c, configured, okta_token, resp, t, n) ==
    IF ~configured
    THEN [cache |-> c, ret |-> NoToken, net |-> 0]
    ELSE IF resp.kind = "ok"
    THEN LET tok == [kind |-> "vault", aud |-> okta_token.aud, n |-> n,
                     src |-> okta_token.kind]
             expires_in == IF resp.expires_in = Absent THEN DefaultExpiresIn
                           ELSE resp.expires_in
         IN IF resp.expires_in = NotANumber
            THEN [cache |-> Cache(tok, c.expires_at), ret |-> NoToken, net |-> 1]
            ELSE [cache |-> Cache(tok, t + expires_in - SafetyMargin),
                  ret |-> tok, net |-> 1]
    ELSE IF resp.kind = "ok_no_token"
    THEN [cache |-> Cache(NoToken, t + DefaultExpiresIn - SafetyMargin),
          ret |-> NoToken, net |-> 1]
    ELSE [cache |-> c, ret |-> NoToken, net |-> 1]

\* The token get_connection_token presents: vault_token or self._vault_token.
PresentedToken(c, supplied) ==
    IF Truthy(supplied) THEN supplied ELSE c.vault_token

\* get_connection_token(connection, vault_token) answered by resp: the record
\* of the call (what was presented, what came back).
GetConnectionToken(c, configured, connection, supplied, resp, t) ==
    LET token == PresentedToken(c, supplied)
        sent == configured /\ Truthy(token)
    IN [called |-> TRUE,
        connection |-> connection,
        supplied |-> Truthy(supplied),
        sent |-> sent,
        presented |-> IF sent THEN token ELSE NoToken,
        cache_expired |-> t > c.expires_at,
        outcome |-> IF ~configured THEN "not_configured"
                    ELSE IF ~Truthy(token) THEN "no_vault_token"
                    ELSE resp,
        ret |-> IF sent /\ resp = "ok"
                THEN [kind |-> "connection", aud |-> token.aud, n |-> token.n,
                      src |-> connection]
                ELSE NoToken]

\* The record of a Step A call made at time t on cache c: what was sent and
\* returned, and the cached token when it was still inside its window.
ARecord(okta_token, resp, r, t, c) ==
    [called |-> TRUE, subject |-> okta_token, outcome |-> resp.kind,
     ret |-> r.ret, net |-> r.net,
     valid_before |-> IF Truthy(c.vault_token) /\ t < c.expires_at
                      THEN c.vault_token ELSE NoToken]

CurrentCache == Cache(vault_token, vault_token_expires_at)

\* The vault tokens the client holds: the one slot self._vault_token.
CachedTokens == IF Truthy(vault_token) THEN {vault_token} ELSE {}

\* Subject tokens a caller can hold: the audience access tokens, and a vault
\* token it got back earlier (chat passes one to get_google_token).
SubjectTokens ==
    {AccessToken(a) : a \in VaultAudiences}
    \cup (IF Truthy(vault_token) THEN {vault_token} ELSE {})

\* Vault tokens a caller can pass to get_connection_token: those Step A
\* returned to it (the cached one, or an older one), or none.
SuppliedTokens ==
    {NoToken}
    \cup (IF Truthy(vault_token) THEN {vault_token} ELSE {})
    \cup (IF lastA.called /\ Truthy(lastA.ret) THEN {lastA.ret} ELSE {})

VExchange(okta_token, resp) ==
    /\ netA < MaxStepA
    /\ LET r == ExchangeOktaTokenForVaultToken(CurrentCache, vaultConfigured,
                                               okta_token, resp, now, netA + 1)
       IN /\ vault_token' = r.cache.vault_token
          /\ vault_token_expires_at' = r.cache.expires_at
          /\ netA' = netA + r.net
          /\ lastA' = ARecord(okta_token, resp, r, now, CurrentCache)
    /\ lastC' = NoCall
    /\ UNCHANGED <<vaultConfigured, now, lastB>>
    /\ UNCHANGED <<pmVars, chatVars, mcpVars, turnVars, scopeVars, xaaVars, traceVars, calVars, seedVars>>

VGetConnectionToken(connection, supplied, resp) ==
    /\ lastB' = GetConnectionToken(CurrentCache, vaultConfigured, connection,
                                   supplied, resp, now)
    /\ lastC' = NoCall
    /\ UNCHANGED <<vaultConfigured, vault_token, vault_token_expires_at, now,
                   netA, lastA>>
    /\ UNCHANGED <<pmVars, chatVars, mcpVars, turnVars, scopeVars, xaaVars, traceVars, calVars, seedVars>>

\* The record of a composite call: whether a source token was given,
\* whether Step A then succeeded, whether get_connection_token was called
\* and sent a request, and whether the composite returned a token.
CRecord(connection, okta_token, a_ok, b) ==
    [called |-> TRUE, with_source |-> Truthy(okta_token), step_a_ok |-> a_ok,
     step_b_called |-> b.called, step_b_sent |-> b.called /\ b.sent,
     returned_token |-> b.called /\ Truthy(b.ret)]

\* Mutant of GetProviderToken: Step B goes ahead on the cached token when
\* Step A failed.
GetProviderToken_StepBAnyway(connection, okta_token, respA, respB) ==
    /\ Truthy(okta_token) => netA < MaxStepA
    /\ IF Truthy(okta_token)
       THEN LET r == ExchangeOktaTokenForVaultToken(CurrentCache, vaultConfigured,
                                                    okta_token, respA, now, netA + 1)
                b == GetConnectionToken(r.cache, vaultConfigured,
                                        connection, NoToken, respB, now)
            IN /\ vault_token' = r.cache.vault_token
               /\ vault_token_expires_at' = r.cache.expires_at
               /\ netA' = netA + r.net
               /\ lastA' = ARecord(okta_token, respA, r, now, CurrentCache)
               /\ lastB' = b
               /\ lastC' = CRecord(connection, okta_token, Truthy(r.ret), b)
       ELSE LET b == GetConnectionToken(CurrentCache, vaultConfigured,
                                        connection, NoToken, respB, now)
            IN /\ lastB' = b
               /\ lastC' = CRecord(connection, okta_token, FALSE, b)
               /\ UNCHANGED <<vault_token, vault_token_expires_at, netA,
                              lastA>>
    /\ UNCHANGED <<vaultConfigured, now>>
    /\ UNCHANGED <<pmVars, chatVars, mcpVars, turnVars, scopeVars, xaaVars, traceVars, calVars, seedVars>>

\* get_google_token / get_salesforce_token(okta_token): Step A when a source
\* token is given, then Step B on the cached token.
GetProviderToken(connection, okta_token, respA, respB) ==
    /\ Truthy(okta_token) => netA < MaxStepA
    /\ IF Truthy(okta_token)
       THEN LET r == ExchangeOktaTokenForVaultToken(CurrentCache, vaultConfigured,
                                                    okta_token, respA, now, netA + 1)
                b == GetConnectionToken(r.cache, vaultConfigured,
                                        connection, NoToken, respB, now)
            IN /\ vault_token' = r.cache.vault_token
               /\ vault_token_expires_at' = r.cache.expires_at
               /\ netA' = netA + r.net
               /\ lastA' = ARecord(okta_token, respA, r, now, CurrentCache)
               /\ lastB' = IF Truthy(r.ret) THEN b ELSE lastB
               /\ lastC' = CRecord(connection, okta_token, Truthy(r.ret),
                                   IF Truthy(r.ret) THEN b ELSE NoCall)
       ELSE LET b == GetConnectionToken(CurrentCache, vaultConfigured,
                                        connection, NoToken, respB, now)
            IN /\ lastB' = b
               /\ lastC' = CRecord(connection, okta_token, FALSE, b)
               /\ UNCHANGED <<vault_token, vault_token_expires_at, netA,
                              lastA>>
    /\ UNCHANGED <<vaultConfigured, now>>
    /\ UNCHANGED <<pmVars, chatVars, mcpVars, turnVars, scopeVars, xaaVars, traceVars, calVars, seedVars>>

VGetGoogleToken(okta_token, respA, respB) ==
    GetProviderToken("google-oauth2", okta_token, respA, respB)

VGetSalesforceToken(okta_token, respA, respB) ==
    GetProviderToken("salesforce", okta_token, respA, respB)

VClearCache ==
    /\ vault_token' = NoToken
    /\ vault_token_expires_at' = 0
    /\ lastC' = NoCall
    /\ UNCHANGED <<vaultConfigured, now, netA, lastA, lastB>>
    /\ UNCHANGED <<pmVars, chatVars, mcpVars, turnVars, scopeVars, xaaVars, traceVars, calVars, seedVars>>

\* The clock advances between calls.
VTick ==
    /\ now + TickStep <= MaxTime
    /\ now' = now + TickStep
    /\ UNCHANGED <<vaultConfigured, vault_token, vault_token_expires_at, netA,
                   lastA, lastB, lastC>>
    /\ UNCHANGED <<pmVars, chatVars, mcpVars, turnVars, scopeVars, xaaVars, traceVars, calVars, seedVars>>


VaultNext ==
    \/ \E t \in SubjectTokens, resp \in StepAResponses : VExchange(t, resp)
    \/ \E c \in Connections, s \in SuppliedTokens, resp \in StepBResponses :
          VGetConnectionToken(c, s, resp)
    \/ \E t \in SubjectTokens \cup {NoToken}, ra \in StepAResponses, rb \in StepBResponses :
          VGetGoogleToken(t, ra, rb)
    \/ \E t \in SubjectTokens \cup {NoToken}, ra \in StepAResponses, rb \in StepBResponses :
          VGetSalesforceToken(t, ra, rb)
    \/ VClearCache
    \/ VTick


(***************************************************************************)
(* ClaudeService.process_message                                           *)
(***************************************************************************)
MaxCalls == 2

SeqToSet(s) == {s[i] : i \in 1..Len(s)}

\* Mutant of MCP_TOOLS: update_client is left out of the list.
MCP_TOOLS_WithoutUpdate ==
    <<"get_client", "list_clients", "get_portfolio", "process_payment">>

MCP_TOOLS ==
    <<"get_client", "list_clients", "get_portfolio", "process_payment", "update_client">>

CALENDAR_TOOLS ==
    <<"list_calendar_events", "get_calendar_event", "create_calendar_event",
      "check_availability", "cancel_calendar_event">>

SALESFORCE_TOOLS ==
    <<"search_salesforce_contacts", "get_contact_opportunities", "get_sales_pipeline",
      "get_high_value_accounts", "create_salesforce_task", "create_salesforce_note",
      "get_pipeline_value", "update_opportunity_stage">>

\* The names of the tools each source of the catalog defines:
\* WealthMCP._define_tools, GoogleCalendarTools.list_tools and
\* ClaudeService._get_salesforce_tools.
MCPCatalog ==
    <<"get_client", "list_clients", "get_portfolio", "process_payment", "update_client">>

CalendarCatalog ==
    <<"list_calendar_events", "get_calendar_event", "create_calendar_event",
      "check_availability", "cancel_calendar_event">>

SalesforceCatalog ==
    <<"search_salesforce_contacts", "get_contact_opportunities", "get_sales_pipeline",
      "get_high_value_accounts", "create_salesforce_task", "create_salesforce_note",
      "get_pipeline_value", "update_opportunity_stage">>

\* _convert_tools_to_claude: the MCP tools, the calendar tools, then the
\* Salesforce tools, each under its own name.
ConvertToolsToClaude(mcp_tools, calendar_tools) ==
    mcp_tools \o calendar_tools \o SalesforceCatalog

\* all_tools of a call: a backend that was not passed contributes no tool.
OfferedTools(in) ==
    ConvertToolsToClaude(IF in.mcp_server THEN MCPCatalog ELSE <<>>,
                         IF in.calendar_tools THEN CalendarCatalog ELSE <<>>)

\* Mutant of Route: the final else hands the name to the MCP branch.
Route_ElseToMcp(tool_name) ==
    IF tool_name \in SeqToSet(CALENDAR_TOOLS) THEN "calendar"
    ELSE IF tool_name \in SeqToSet(SALESFORCE_TOOLS) THEN "salesforce"
    ELSE "mcp"

\* The branch of the if/elif chain a tool name takes.
Route(tool_name) ==
    IF tool_name \in SeqToSet(MCP_TOOLS) THEN "mcp"
    ELSE IF tool_name \in SeqToSet(CALENDAR_TOOLS) THEN "calendar"
    ELSE IF tool_name \in SeqToSet(SALESFORCE_TOOLS) THEN "salesforce"
    ELSE "unknown"

\* Tool names the oracle asks for: a write tool of each flow, and a name that
\* is in no routing list.
ToolRequests ==
    {"update_client", "create_calendar_event", "create_salesforce_task", "export_report"}

\* Final narratives of the oracle.
Narratives ==
    {"Here is the portfolio summary.",
     "I've successfully scheduled the meeting.",
     "The meeting has been cancelled."}

ConnectionToken(aud) ==
    [kind |-> "connection", aud |-> aud, n |-> 1,
     src |-> IF aud = "google" THEN "google-oauth2" ELSE "salesforce"]

\* The arguments of process_message: the three per-flow tokens (each may be
\* None), the two backend instances (each may be None), and whether
\* ANTHROPIC_API_KEY gave the service a client.
PMInputs ==
    [mcp_token : {NoToken, AccessToken("mcp")},
     google_token : {NoToken, ConnectionToken("google")},
     salesforce_token : {NoToken, ConnectionToken("salesforce")},
     mcp_server : BOOLEAN,
     calendar_tools : BOOLEAN,
     client : BOOLEAN]

\* A tool result: the mapping a backend (or the router) answers with, reduced
\* to its discriminators.
Result(error, status, source, flow) ==
    [error |-> error, status |-> status, source |-> source, security_flow |-> flow]

\* WealthMCP.call_tool: what each tool can answer.  The token in user_info
\* is read and, when missing, only logged: the tool runs either way.
WealthMCPCallTool(tool_name, has_token) ==
    IF tool_name = "get_client" \/ tool_name = "get_portfolio"
    THEN {Result("none", "none", "Internal Portfolio Management System", "none"),
          Result("client_not_found", "none", "none", "none"),
          Result("access_denied", "none", "none", "none"),
          Result("exception", "none", "none", "none")}
    ELSE IF tool_name = "list_clients"
    THEN {Result("none", "none", "Internal Portfolio Management System", "none")}
    ELSE IF tool_name = "process_payment"
    THEN {Result("client_not_found", "none", "none", "none"),
          Result("exception", "none", "none", "none"),
          Result("payment_blocked", "none", "none", "none"),
          Result("none", "compliance_review_required", "none", "none"),
          Result("none", "step_up_required", "none", "none"),
          Result("none", "approved", "none", "none")}
    ELSE IF tool_name = "update_client"
    THEN {Result("client_not_found", "none", "none", "none"),
          Result("none", "updated", "none", "none"),
          Result("invalid_field", "none", "none", "none"),
          Result("exception", "none", "none", "none")}
    ELSE {Result("Unknown tool", "none", "none", "none")}

Raise == Result("raise", "raise", "raise", "raise")

\* GoogleCalendarTools.call_tool: with a token the Google API is called and,
\* when that call fails, the mock calendar answers; without a token the mock
\* calendar answers.  Parsing the arguments can raise (no handler catches it).
CalendarCallTool(tool_name, has_token) ==
    LET google == "Google Calendar (via Auth0 Token Vault)"
        mock == "Demo Data (Mock)"
    IN IF tool_name = "create_calendar_event"
       THEN (IF has_token THEN {Result("none", "created", google, "none")} ELSE {})
            \cup {Result("none", "created", mock, "none"), Raise}
       ELSE IF tool_name = "cancel_calendar_event"
       THEN (IF has_token THEN {Result("none", "cancelled", google, "none")} ELSE {})
            \cup {Result("none", "cancelled", mock, "none"),
                  Result("not_found", "none", "none", "none")}
       ELSE IF tool_name = "list_calendar_events"
       THEN (IF has_token THEN {Result("none", "none", google, "none")} ELSE {})
            \cup {Result("none", "none", mock, "none"), Raise}
       ELSE IF tool_name = "get_calendar_event"
       THEN (IF has_token THEN {Result("none", "none", google, "none")} ELSE {})
            \cup {Result("none", "none", mock, "none"),
                  Result("not_found", "none", "none", "none")}
       ELSE IF tool_name = "check_availability"
       THEN {Result("none", "none", mock, "none"), Raise}
       ELSE {Result("unknown_tool", "none", "none", "none")}

\* _execute_salesforce_tool: every Salesforce function catches its own
\* exceptions and answers success or an error mapping.
ExecuteSalesforceTool(tool_name) ==
    IF tool_name \in SeqToSet(SALESFORCE_TOOLS)
    THEN {Result("none", "success", "Salesforce", "none"),
          Result("request_failed", "none", "none", "none")}
    ELSE {Result("Unknown Salesforce tool", "none", "none", "none")}

WithFlow(r, flow) == [r EXCEPT !.security_flow = flow]

\* Mutant of FlowToken: the calendar branch hands over the MCP token.
FlowToken_CalendarGetsMcp(flow, in) ==
    IF flow = "mcp" THEN in.mcp_token
    ELSE IF flow = "calendar" THEN in.mcp_token
    ELSE IF flow = "salesforce" THEN in.salesforce_token
    ELSE NoToken

\* The token argument each branch passes to its backend: mcp_token (inside
\* tool_user_info), google_token, salesforce_token.
FlowToken(flow, in) ==
    IF flow = "mcp" THEN in.mcp_token
    ELSE IF flow = "calendar" THEN in.google_token
    ELSE IF flow = "salesforce" THEN in.salesforce_token
    ELSE NoToken

\* One tool_use block through the if/elif chain: the results the block can
\* get, each with the backend invoked for it and the token handed to it.
\* backend "none": no backend was invoked.
Dispatch(tool_name, in) ==
    LET call(b, t, r) == [backend |-> b, token |-> t, result |-> r]
    IN IF Route(tool_name) = "mcp"
       THEN IF in.mcp_server
            THEN {call("mcp", FlowToken("mcp", in),
                       IF r = Raise THEN r ELSE WithFlow(r, "Okta XAA (ID-JAG)"))
                    : r \in WealthMCPCallTool(tool_name, Truthy(FlowToken("mcp", in)))}
            ELSE {call("none", NoToken,
                       Result("MCP server not available", "none", "none", "none"))}
       ELSE IF Route(tool_name) = "calendar"
       THEN IF in.calendar_tools
            THEN {call("calendar", FlowToken("calendar", in),
                       IF r = Raise THEN r ELSE WithFlow(r, "Auth0 Token Vault (Google)"))
                    : r \in CalendarCallTool(tool_name, Truthy(FlowToken("calendar", in)))}
            ELSE {call("none", NoToken,
                       Result("Calendar tools not available", "none", "none", "none"))}
       ELSE IF Route(tool_name) = "salesforce"
       THEN IF Truthy(in.salesforce_token)
            THEN {call("salesforce", FlowToken("salesforce", in),
                       WithFlow(r, "Auth0 Token Vault (Salesforce)"))
                    : r \in ExecuteSalesforceTool(tool_name)}
            ELSE {call("none", NoToken,
                       Result("Salesforce not connected", "none", "none", "none"))}
       ELSE {call("none", NoToken, Result("Unknown tool", "none", "none", "none"))}

\* The lists the loop keeps, as one value.
Acc == [tools_called |-> tools_called,
        xaa_tools_called |-> xaa_tools_called,
        vault_tools_called |-> vault_tools_called,
        salesforce_tools_called |-> salesforce_tools_called,
        tool_results |-> tool_results,
        backendCalls |-> backendCalls,
        allResults |-> allResults,
        raised |-> FALSE]

\* Mutant of ProcessBlock: the flow a call is recorded under is taken from
\* the token at hand, so a name whose token is missing counts as unrouted.
ProcessBlock_FlowFromToken(a, block, d) ==
    LET flow == IF Truthy(d.token) THEN Route(block.name) ELSE "unknown"
        entry == [tool_use_id |-> block.id, tool |-> block.name, result |-> d.result]
        a1 == [a EXCEPT
                 !.tools_called = Append(@, block.name),
                 !.xaa_tools_called =
                     IF flow = "mcp" THEN Append(@, block.name) ELSE @,
                 !.vault_tools_called =
                     IF flow = "calendar" THEN Append(@, block.name) ELSE @,
                 !.salesforce_tools_called =
                     IF flow = "salesforce" THEN Append(@, block.name) ELSE @,
                 !.backendCalls =
                     IF d.backend # "none"
                     THEN Append(@, [backend |-> d.backend, tool |-> block.name,
                                     token |-> d.token])
                     ELSE @]
    IN IF d.result = Raise
       THEN [a1 EXCEPT !.raised = TRUE]
       ELSE [a1 EXCEPT !.tool_results = Append(@, entry),
                       !.allResults = Append(@, entry)]

\* The body of `for content_block in response.content` for one tool_use
\* block whose dispatch came out as d.
ProcessBlock(a, block, d) ==
    LET flow == Route(block.name)
        entry == [tool_use_id |-> block.id, tool |-> block.name, result |-> d.result]
        a1 == [a EXCEPT
                 !.tools_called = Append(@, block.name),
                 !.xaa_tools_called =
                     IF flow = "mcp" THEN Append(@, block.name) ELSE @,
                 !.vault_tools_called =
                     IF flow = "calendar" THEN Append(@, block.name) ELSE @,
                 !.salesforce_tools_called =
                     IF flow = "salesforce" THEN Append(@, block.name) ELSE @,
                 !.backendCalls =
                     IF d.backend # "none"
                     THEN Append(@, [backend |-> d.backend, tool |-> block.name,
                                     token |-> d.token])
                     ELSE @]
    IN IF d.result = Raise
       THEN [a1 EXCEPT !.raised = TRUE]
       ELSE [a1 EXCEPT !.tool_results = Append(@, entry),
                       !.allResults = Append(@, entry)]

\* The for loop over the blocks from index i on; ds[i] is block i's dispatch.
\* An exception leaves the loop at once.
RECURSIVE ProcessBlocks(_, _, _, _)
ProcessBlocks(a, blocks, ds, i) ==
    IF i > Len(blocks) \/ a.raised THEN a
    ELSE ProcessBlocks(
             IF blocks[i].type = "tool_use" THEN ProcessBlock(a, blocks[i], ds[i]) ELSE a,
             blocks, ds, i + 1)

ToolUse(name, id) == [type |-> "tool_use", name |-> name, id |-> id, text |-> ""]
TextBlock(text) == [type |-> "text", name |-> "", id |-> 0, text |-> text]

\* The non-empty sequences of at most n requested tool names.
ToolNameSeqs(n) == UNION {[1..k -> ToolRequests] : k \in 1..n}

\* What client.messages.create can come back with when `calls` tool calls
\* have been made: an API error, a final text, or a request for tools.
OracleResponses(calls) ==
    {[stop_reason |-> "api_error", content |-> <<>>]}
    \cup {[stop_reason |-> "end_turn", content |-> <<TextBlock(t)>>] : t \in Narratives}
    \cup {[stop_reason |-> "tool_use",
           content |-> [i \in DOMAIN names |-> ToolUse(names[i], calls + i)]]
            : names \in ToolNameSeqs(MaxCalls - calls)}

NoResponse == [stop_reason |-> "none", content |-> <<>>]
None == [none |-> TRUE]
Some(v) == [none |-> FALSE, val |-> v]

\* Mutant of ErrorResult: the handler lets the exception out of the call.
ErrorResult_Propagates(text) == [content |-> <<>>, agent_type |-> "raised"]

\* The mapping the except handlers (and the missing-client check) return.
ErrorResult(text) == [content |-> <<text>>, agent_type |-> "Error"]

\* The text blocks of the final response, concatenated.
RECURSIVE FinalContent(_, _)
FinalContent(content, i) ==
    IF i > Len(content) THEN <<>>
    ELSE (IF content[i].type = "text" THEN <<content[i].text>> ELSE <<>>)
         \o FinalContent(content, i + 1)

\* Mutant of FinalResult: the trace lists only the calls that reached a
\* backend.
FinalResult_ExecutedOnly(resp, in, a) ==
    [content |-> FinalContent(resp.content, 1),
     agent_type |-> "Buffett (Wealth Advisor)",
     tools_called |->
         IF a.tools_called # <<>>
         THEN Some([i \in 1..Len(a.backendCalls) |-> a.backendCalls[i].tool])
         ELSE None,
     security_info |-> None]

\* The mapping returned after the loop.
FinalResult(resp, in, a) ==
    [content |-> FinalContent(resp.content, 1),
     agent_type |-> "Buffett (Wealth Advisor)",
     tools_called |-> IF a.tools_called # <<>> THEN Some(a.tools_called) ELSE None,
     security_info |->
         IF a.tools_called # <<>>
         THEN Some([xaa_tools |-> a.xaa_tools_called,
                    vault_tools |-> a.vault_tools_called,
                    salesforce_tools |-> a.salesforce_tools_called,
                    mcp_token_used |-> Truthy(in.mcp_token) /\ a.xaa_tools_called # <<>>,
                    google_token_used |->
                        Truthy(in.google_token) /\ a.vault_tools_called # <<>>,
                    salesforce_token_used |->
                        Truthy(in.salesforce_token) /\ a.salesforce_tools_called # <<>>])
         ELSE None]

SetLists(a) ==
    /\ tools_called' = a.tools_called
    /\ xaa_tools_called' = a.xaa_tools_called
    /\ vault_tools_called' = a.vault_tools_called
    /\ salesforce_tools_called' = a.salesforce_tools_called
    /\ backendCalls' = a.backendCalls
    /\ allResults' = a.allResults

\* process_message up to the first answer of the oracle.
PMStart(in, resp) ==
    /\ pmPc = "idle"
    /\ pmIn' = in
    /\ IF ~in.client
       THEN /\ pmPc' = "done"
            /\ pmResult' = ErrorResult("Claude API is not configured.")
            /\ UNCHANGED <<response, messages>>
       ELSE /\ messages' = <<[role |-> "user", content |-> "message"]>>
            /\ response' = resp
            /\ IF resp.stop_reason = "api_error"
               THEN /\ pmPc' = "done"
                    /\ pmResult' = ErrorResult("I encountered an error")
               ELSE /\ pmPc' = "loop"
                    /\ UNCHANGED pmResult
    /\ UNCHANGED <<tools_called, xaa_tools_called, vault_tools_called,
                   salesforce_tools_called, tool_results, backendCalls,
                   allResults, rounds>>
    /\ UNCHANGED <<vaultVars, chatVars, mcpVars, turnVars, scopeVars, xaaVars, traceVars, calVars, seedVars>>

\* Mutant of PMRound: tool_results is not emptied after the results were
\* fed back.
PMRound_KeepsResults(ds, resp) ==
    /\ pmPc = "loop"
    /\ response.stop_reason = "tool_use"
    /\ LET a == ProcessBlocks(Acc, response.content, ds, 1)
       IN /\ SetLists(a)
          /\ IF a.raised
             THEN /\ pmPc' = "done"
                  /\ pmResult' = ErrorResult("An unexpected error occurred")
                  /\ tool_results' = a.tool_results
                  /\ UNCHANGED <<response, messages, rounds>>
             ELSE /\ messages' = messages
                        \o <<[role |-> "assistant", content |-> response.content],
                             [role |-> "user", content |-> a.tool_results]>>
                  /\ response' = resp
                  /\ tool_results' = a.tool_results
                  /\ rounds' = rounds + 1
                  /\ IF resp.stop_reason = "api_error"
                     THEN /\ pmPc' = "done"
                          /\ pmResult' = ErrorResult("I encountered an error")
                     ELSE /\ pmPc' = "loop"
                          /\ UNCHANGED pmResult
    /\ UNCHANGED pmIn
    /\ UNCHANGED <<vaultVars, chatVars, mcpVars, turnVars, scopeVars, xaaVars, traceVars, calVars, seedVars>>

\* One pass of `while response.stop_reason == "tool_use"`: every block of the
\* response is dispatched, the results are fed back, the oracle answers resp.
PMRound(ds, resp) ==
    /\ pmPc = "loop"
    /\ response.stop_reason = "tool_use"
    /\ LET a == ProcessBlocks(Acc, response.content, ds, 1)
       IN /\ SetLists(a)
          /\ IF a.raised
             THEN /\ pmPc' = "done"
                  /\ pmResult' = ErrorResult("An unexpected error occurred")
                  /\ tool_results' = a.tool_results
                  /\ UNCHANGED <<response, messages, rounds>>
             ELSE /\ messages' = messages
                        \o <<[role |-> "assistant", content |-> response.content],
                             [role |-> "user", content |-> a.tool_results]>>
                  /\ response' = resp
                  /\ tool_results' = <<>>
                  /\ rounds' = rounds + 1
                  /\ IF resp.stop_reason = "api_error"
                     THEN /\ pmPc' = "done"
                          /\ pmResult' = ErrorResult("I encountered an error")
                     ELSE /\ pmPc' = "loop"
                          /\ UNCHANGED pmResult
    /\ UNCHANGED pmIn
    /\ UNCHANGED <<vaultVars, chatVars, mcpVars, turnVars, scopeVars, xaaVars, traceVars, calVars, seedVars>>

\* The loop is left: the final text is extracted and the mapping returned.
PMFinish ==
    /\ pmPc = "loop"
    /\ response.stop_reason # "tool_use"
    /\ pmPc' = "done"
    /\ pmResult' = FinalResult(response, pmIn, Acc)
    /\ UNCHANGED <<pmIn, response, messages, tools_called, xaa_tools_called,
                   vault_tools_called, salesforce_tools_called, tool_results,
                   backendCalls, allResults, rounds>>
    /\ UNCHANGED <<vaultVars, chatVars, mcpVars, turnVars, scopeVars, xaaVars, traceVars, calVars, seedVars>>

\* The dispatches the blocks from index i on can get, one per block.
RECURSIVE DispatchesFrom(_, _, _)
DispatchesFrom(content, in, i) ==
    IF i > Len(content) THEN {<<>>}
    ELSE {<<d>> \o rest : d \in Dispatch(content[i].name, in),
                          rest \in DispatchesFrom(content, in, i + 1)}

RoundDispatches == DispatchesFrom(response.content, pmIn, 1)


PMNext ==
    \/ \E resp \in OracleResponses(0) : PMStart(pmIn, resp)
    \/ \E ds \in RoundDispatches, resp \in OracleResponses(Len(tools_called) + Len(response.content)) :
          PMRound(ds, resp)
    \/ PMFinish


(***************************************************************************)
(* detect_required_scope (api/main.py).  A text is a sequence of           *)
(* characters.                                                             *)
(***************************************************************************)
WRITE_KEYWORDS ==
    <<<<"s", "c", "h", "e", "d", "u", "l", "e">>,
      <<"c", "r", "e", "a", "t", "e">>,
      <<"b", "o", "o", "k">>,
      <<"s", "e", "t", " ", "u", "p">>,
      <<"a", "r", "r", "a", "n", "g", "e">>,
      <<"p", "l", "a", "n">>,
      <<"a", "d", "d">>,
      <<"c", "a", "n", "c", "e", "l">>,
      <<"d", "e", "l", "e", "t", "e">>,
      <<"r", "e", "m", "o", "v", "e">>,
      <<"r", "e", "s", "c", "h", "e", "d", "u", "l", "e">>,
      <<"m", "o", "v", "e">>,
      <<"c", "h", "a", "n", "g", "e">>,
      <<"p", "a", "y">>,
      <<"t", "r", "a", "n", "s", "f", "e", "r">>,
      <<"s", "e", "n", "d">>,
      <<"p", "r", "o", "c", "e", "s", "s">>,
      <<"e", "x", "e", "c", "u", "t", "e">>,
      <<"w", "i", "r", "e">>,
      <<"u", "p", "d", "a", "t", "e">>,
      <<"m", "o", "d", "i", "f", "y">>,
      <<"e", "d", "i", "t">>,
      <<"c", "h", "a", "n", "g", "e">>,
      <<"s", "e", "t">>,
      <<"a", "s", "s", "i", "g", "n">>,
      <<"l", "o", "g">>,
      <<"r", "e", "c", "o", "r", "d">>,
      <<"n", "o", "t", "e">>,
      <<"t", "a", "s", "k">>,
      <<"f", "o", "l", "l", "o", "w", "-", "u", "p">>,
      <<"f", "o", "l", "l", "o", "w", "u", "p">>>>

UpperToLower ==
    "A" :> "a" @@ "B" :> "b" @@ "C" :> "c" @@ "D" :> "d" @@ "E" :> "e" @@ "F" :> "f" @@
    "G" :> "g" @@ "H" :> "h" @@ "I" :> "i" @@ "J" :> "j" @@ "K" :> "k" @@ "L" :> "l" @@
    "M" :> "m" @@ "N" :> "n" @@ "O" :> "o" @@ "P" :> "p" @@ "Q" :> "q" @@ "R" :> "r" @@
    "S" :> "s" @@ "T" :> "t" @@ "U" :> "u" @@ "V" :> "v" @@ "W" :> "w" @@ "X" :> "x" @@
    "Y" :> "y" @@ "Z" :> "z"

\* Mutant of ToLower: the text is compared as typed.
ToLower_AsTyped(s) == s

\* str.lower(), character by character.
ToLower(s) ==
    [i \in 1..Len(s) |-> IF s[i] \in DOMAIN UpperToLower THEN UpperToLower[s[i]] ELSE s[i]]

\* keyword in query_lower
Contains(s, k) ==
    \E i \in 0..(Len(s) - Len(k)) : SubSeq(s, i + 1, i + Len(k)) = k

detect_required_scope(query) ==
    LET query_lower == ToLower(query)
    IN IF \E j \in 1..Len(WRITE_KEYWORDS) : Contains(query_lower, WRITE_KEYWORDS[j])
       THEN "mcp:write"
       ELSE "mcp:read"

\* Last messages of a chat request.
TaskTexts ==
    {<<>>,
     <<"s", "h", "o", "w", " ", "p", "o", "r", "t", "f", "o", "l", "i", "o">>,
     <<"l", "i", "s", "t", " ", "c", "l", "i", "e", "n", "t", "s">>,
     <<"S", "C", "H", "E", "D", "U", "L", "E", " ", "c", "a", "l", "l">>,
     <<"P", "a", "y", " ", "B", "o", "b">>,
     <<"c", "a", "t", "a", "l", "o", "g">>}

\* Calls of detect_required_scope made in one process.
MaxScopeCalls == 3

\* Mutant of DetectCall: once a query was classified as a write, every later
\* query is.
DetectCall_RemembersWrite(query) ==
    /\ Len(scopeCalls) < MaxScopeCalls
    /\ scopeCalls' = Append(scopeCalls,
           [query |-> query,
            scope |-> IF \E i \in 1..Len(scopeCalls) : scopeCalls[i].scope = "mcp:write"
                      THEN "mcp:write" ELSE detect_required_scope(query)])
    /\ UNCHANGED <<vaultVars, pmVars, chatVars, mcpVars, turnVars, xaaVars, traceVars, calVars, seedVars>>

\* One call of detect_required_scope(query): it reads its argument and the
\* module constant WRITE_KEYWORDS and returns.
DetectCall(query) ==
    /\ Len(scopeCalls) < MaxScopeCalls
    /\ scopeCalls' = Append(scopeCalls,
           [query |-> query, scope |-> detect_required_scope(query)])
    /\ UNCHANGED <<vaultVars, pmVars, chatVars, mcpVars, turnVars, xaaVars, traceVars, calVars, seedVars>>

ScopeNext == \E query \in TaskTexts : DetectCall(query)


(***************************************************************************)
(* OktaCrossAppAccessManager (auth/okta_cross_app_access.py)               *)
(***************************************************************************)
NoInfo == [none |-> TRUE]

\* How far __init__ got in building the SDK instances: 0 none (not
\* configured, or the first constructor raised), 1 self.sdk, 2 + sdk_mcp,
\* 3 + sdk_google, 4 + sdk_salesforce.
SdkLevels == 0..4

SdkInstance(aud, level) ==
    IF aud = "mcp" THEN level >= 2
    ELSE IF aud = "google" THEN level >= 3
    ELSE level >= 4

\* is_configured(): the settings are present and self.sdk was built.
XaaIsConfigured(level) == level >= 1

\* What the authorization servers do with one audience's exchange.
XaaOutcomes == {"ok", "step1_fail", "step2_fail", "step3_fail"}

\* _exchange_id_to_auth_server_token: the Step 1 requests sent and the
\* mapping returned (NoInfo: None).  A failed or raising Step 2 is only
\* logged; any exception of Step 1 or Step 3 is caught and gives None.
ExchangeIdToAuthServerToken(aud, level, outcome, scope) ==
    IF ~(level >= 1) \/ ~SdkInstance(aud, level)
    THEN [requests |-> <<>>, info |-> NoInfo]
    ELSE LET req == <<[audience |-> aud, scope |-> scope]>>
         IN IF outcome = "step1_fail" \/ outcome = "step3_fail"
            THEN [requests |-> req, info |-> NoInfo]
            ELSE [requests |-> req,
                  info |-> [none |-> FALSE,
                            access_token |-> AccessToken(aud),
                            id_jag_token |-> [kind |-> "idjag", aud |-> aud, n |-> 0,
                                              src |-> "id_token"],
                            scope |-> scope,
                            audience |-> aud]]

\* The scope each public exchange method passes on: exchange_id_to_mcp_token
\* passes the literal "mcp:read", the other two pass none.
MethodScope(aud) == IF aud = "mcp" THEN "mcp:read" ELSE "None"

\* AUTH_SERVER_IDS: the authorization server of each audience (the defaults
\* of the three settings).
AUTH_SERVER_IDS ==
    [aud \in Audiences |->
        IF aud = "mcp" THEN "aust6u013gCoEB6sz1d7"
        ELSE IF aud = "google" THEN "ausst9jmul5dzXzDZ1d7"
        ELSE "aust9a53uybbE8WG41d7"]

\* What the SDK does at each step of one exchange: Step 1 returns an ID-JAG
\* or raises; Step 2 reports valid, reports invalid, or raises; Step 3
\* returns an access token or raises.
XaaStepOutcomes ==
    [s1 : {"ok", "raises"}, s2 : {"valid", "invalid", "raises"}, s3 : {"ok", "raises"}]

IdJag(aud, n) == [kind |-> "idjag", aud |-> aud, n |-> n, src |-> "id_token"]

NoRequestSent == [sent |-> FALSE]

\* Mutant of Step3Request: every audience's ID-JAG is taken to the MCP
\* authorization server.
Step3Request_McpServer(aud, id_jag) ==
    [sent |-> TRUE, id_jag_token |-> id_jag,
     authorization_server_id |-> AUTH_SERVER_IDS["mcp"], sdk_instance |-> "mcp"]

\* The AuthServerTokenRequest of Step 3 and the SDK instance it is sent
\* through: the public method of audience aud passes AUTH_SERVER_IDS[aud] and
\* that audience's instance.
Step3Request(aud, id_jag) ==
    [sent |-> TRUE, id_jag_token |-> id_jag,
     authorization_server_id |-> AUTH_SERVER_IDS[aud], sdk_instance |-> aud]

\* Mutant of ExchangeSteps: an ID-JAG that Step 2 does not report valid ends
\* the exchange.
ExchangeSteps_Step2Aborts(aud, level, o, n) ==
    IF ~(level >= 1) \/ ~SdkInstance(aud, level)
    THEN [aud |-> aud, o |-> o, step1 |-> NoRequestSent, id_jag |-> NoToken,
          step2 |-> FALSE, step3 |-> NoRequestSent, info |-> NoInfo]
    ELSE LET req1 == [sent |-> TRUE, audience |-> AUTH_SERVER_IDS[aud],
                      scope |-> MethodScope(aud)]
             id_jag == IdJag(aud, n)
         IN IF o.s1 = "raises"
            THEN [aud |-> aud, o |-> o, step1 |-> req1, id_jag |-> NoToken,
                  step2 |-> FALSE, step3 |-> NoRequestSent, info |-> NoInfo]
            ELSE IF o.s2 # "valid"
            THEN [aud |-> aud, o |-> o, step1 |-> req1, id_jag |-> id_jag,
                  step2 |-> TRUE, step3 |-> NoRequestSent, info |-> NoInfo]
            ELSE [aud |-> aud, o |-> o, step1 |-> req1, id_jag |-> id_jag,
                  step2 |-> TRUE, step3 |-> Step3Request(aud, id_jag),
                  info |-> IF o.s3 = "raises" THEN NoInfo
                           ELSE [none |-> FALSE,
                                 access_token |-> [AccessToken(aud) EXCEPT !.n = n],
                                 id_jag_token |-> id_jag,
                                 scope |-> MethodScope(aud),
                                 audience |-> aud]]

\* _exchange_id_to_auth_server_token as called by the public method of
\* audience aud, the SDK behaving as o, n being the serial of the exchange:
\* the requests sent at Step 1 and Step 3, whether Step 2 was called, the
\* ID-JAG Step 1 returned and the mapping returned (NoInfo: None).
ExchangeSteps(aud, level, o, n) ==
    IF ~(level >= 1) \/ ~SdkInstance(aud, level)
    THEN [aud |-> aud, o |-> o, step1 |-> NoRequestSent, id_jag |-> NoToken,
          step2 |-> FALSE, step3 |-> NoRequestSent, info |-> NoInfo]
    ELSE LET req1 == [sent |-> TRUE, audience |-> AUTH_SERVER_IDS[aud],
                      scope |-> MethodScope(aud)]
             id_jag == IdJag(aud, n)
         IN IF o.s1 = "raises"
            THEN [aud |-> aud, o |-> o, step1 |-> req1, id_jag |-> NoToken,
                  step2 |-> FALSE, step3 |-> NoRequestSent, info |-> NoInfo]
            ELSE [aud |-> aud, o |-> o, step1 |-> req1, id_jag |-> id_jag,
                  step2 |-> TRUE, step3 |-> Step3Request(aud, id_jag),
                  info |-> IF o.s3 = "raises" THEN NoInfo
                           ELSE [none |-> FALSE,
                                 access_token |-> [AccessToken(aud) EXCEPT !.n = n],
                                 id_jag_token |-> id_jag,
                                 scope |-> MethodScope(aud),
                                 audience |-> aud]]

\* Exchanges made on one manager.
MaxXaaCalls == 2

\* exchange_id_to_mcp_token / _google_token / _salesforce_token(id_token).
XaaExchange(aud, o) ==
    /\ Len(xaaCalls) < MaxXaaCalls
    /\ xaaCalls' = Append(xaaCalls,
                          ExchangeSteps(aud, xaaSdkLevel, o, Len(xaaCalls) + 1))
    /\ UNCHANGED xaaSdkLevel
    /\ UNCHANGED <<vaultVars, pmVars, chatVars, mcpVars, turnVars, scopeVars, traceVars, calVars, seedVars>>

XaaNext == \E aud \in Audiences, o \in XaaStepOutcomes : XaaExchange(aud, o)


\* The parameters the public exchange methods declare (besides self).
ExchangeMethodParams == {"id_token"}

\* The parameters process_message declares (besides self).
ProcessMessageParams ==
    {"message", "conversation_history", "user_info", "mcp_token", "mcp_server",
     "calendar_tools", "google_token", "salesforce_token"}

\* A Python call binds only when every argument it passes is a declared
\* parameter; otherwise it raises TypeError before the body runs.
CallBinds(passed, declared) == passed \subseteq declared

(***************************************************************************)
(* chat (api/main.py)                                                      *)
(***************************************************************************)
\* The arguments chat passes to each exchange method and to process_message.
ChatExchangeArgs == {"id_token", "scope"}

ChatProcessMessageArgs ==
    {"message", "conversation_history", "user_info", "mcp_token", "mcp_server",
     "calendar_tools", "google_token", "salesforce_tools", "salesforce_token"}

ChatInputs ==
    [text : TaskTexts,
     id_token : BOOLEAN,                 \* the X-ID-Token header is present
     id_valid : BOOLEAN,                 \* validate_token finds it valid
     sdk_level : SdkLevels,
     xaa : [Audiences -> XaaOutcomes]]

Http500(detail) == [status |-> 500, detail |-> detail]

\* STEP 1 and the scope decision.
ChatValidate ==
    /\ chatPc = "start"
    /\ user_info' = IF chatIn.id_token /\ chatIn.id_valid THEN "claims" ELSE "None"
    /\ required_scope' = detect_required_scope(chatIn.text)
    /\ chatPc' = "xaa"
    /\ UNCHANGED <<chatIn, xaaInfo, xaaRequests, vaultInfo, chatResult>>
    /\ UNCHANGED <<vaultVars, pmVars, mcpVars, turnVars, scopeVars, xaaVars, traceVars, calVars, seedVars>>

\* The three exchanges of STEP 2, in the order mcp, google, salesforce.
ChatExchanges ==
    LET run(aud) == ExchangeIdToAuthServerToken(aud, chatIn.sdk_level,
                                                chatIn.xaa[aud], MethodScope(aud))
    IN [requests |-> run("mcp").requests \o run("google").requests
                     \o run("salesforce").requests,
        info |-> [aud \in Audiences |-> run(aud).info]]

\* STEP 2.  Each exchange method is called with scope=required_scope.
ChatXAA ==
    /\ chatPc = "xaa"
    /\ IF chatIn.id_token /\ XaaIsConfigured(chatIn.sdk_level)
       THEN IF CallBinds(ChatExchangeArgs, ExchangeMethodParams)
            THEN /\ xaaRequests' = ChatExchanges.requests
                 /\ xaaInfo' = ChatExchanges.info
                 /\ chatPc' = "vault_google"
                 /\ UNCHANGED chatResult
            ELSE /\ chatPc' = "done"
                 /\ chatResult' = Http500("TypeError")
                 /\ UNCHANGED <<xaaRequests, xaaInfo>>
       ELSE /\ chatPc' = "vault_google"
            /\ UNCHANGED <<xaaRequests, xaaInfo, chatResult>>
    /\ UNCHANGED <<chatIn, user_info, required_scope, vaultInfo>>
    /\ UNCHANGED <<vaultVars, pmVars, mcpVars, turnVars, scopeVars, xaaVars, traceVars, calVars, seedVars>>

\* STEP 3 for one audience: Step A on the audience's access token, then
\* get_google_token / get_salesforce_token called with the vault token just
\* obtained as its source token (a second Step A, then Step B on the cache).
ChatVaultFor(aud, connection, nextPc, respA, respA2, respB) ==
    /\ IF vaultConfigured /\ ~xaaInfo[aud].none
       THEN LET r1 == ExchangeOktaTokenForVaultToken(
                          CurrentCache, vaultConfigured, xaaInfo[aud].access_token,
                          respA, now, netA + 1)
                r2 == ExchangeOktaTokenForVaultToken(
                          r1.cache, vaultConfigured, r1.ret, respA2, now, netA + 2)
                b == GetConnectionToken(r2.cache, vaultConfigured, connection,
                                        NoToken, respB, now)
                a1 == ARecord(xaaInfo[aud].access_token, respA, r1, now, CurrentCache)
            IN IF ~Truthy(r1.ret)
               THEN /\ vault_token' = r1.cache.vault_token
                    /\ vault_token_expires_at' = r1.cache.expires_at
                    /\ netA' = netA + r1.net
                    /\ lastA' = a1
                    /\ UNCHANGED <<lastB, lastC, vaultInfo>>
               ELSE /\ vault_token' = r2.cache.vault_token
                    /\ vault_token_expires_at' = r2.cache.expires_at
                    /\ netA' = netA + r1.net + r2.net
                    /\ lastA' = ARecord(r1.ret, respA2, r2, now, r1.cache)
                    /\ lastB' = IF Truthy(r2.ret) THEN b ELSE lastB
                    /\ lastC' = CRecord(connection, r1.ret, Truthy(r2.ret),
                                        IF Truthy(r2.ret) THEN b ELSE NoCall)
                    /\ vaultInfo' = [vaultInfo EXCEPT ![aud] =
                                        IF Truthy(r2.ret) THEN b.ret ELSE NoToken]
       ELSE UNCHANGED <<vault_token, vault_token_expires_at, netA,
                        lastA, lastB, lastC, vaultInfo>>
    /\ chatPc' = nextPc
    /\ UNCHANGED <<vaultConfigured, now>>
    /\ UNCHANGED <<chatIn, user_info, required_scope, xaaInfo, xaaRequests, chatResult>>
    /\ UNCHANGED <<pmVars, mcpVars, turnVars, scopeVars, xaaVars, traceVars, calVars, seedVars>>

\* The vault's answers matter only when the audience has an access token.
ChatStepAResponses(aud) ==
    IF vaultConfigured /\ ~xaaInfo[aud].none THEN StepAResponses
    ELSE {[kind |-> "denied", expires_in |-> Absent]}

ChatStepBResponses(aud) ==
    IF vaultConfigured /\ ~xaaInfo[aud].none THEN StepBResponses ELSE {"timeout"}

ChatVaultGoogle(respA, respA2, respB) ==
    /\ chatPc = "vault_google"
    /\ ChatVaultFor("google", "google-oauth2", "vault_salesforce", respA, respA2, respB)

ChatVaultSalesforce(respA, respA2, respB) ==
    /\ chatPc = "vault_salesforce"
    /\ ChatVaultFor("salesforce", "salesforce", "claude", respA, respA2, respB)

\* STEP 4: process_message is called with the turn's tokens.  The call is
\* inside chat's try block: an exception becomes HTTP 500.
ChatProcess ==
    /\ chatPc = "claude"
    /\ IF CallBinds(ChatProcessMessageArgs, ProcessMessageParams)
       THEN /\ chatPc' = "in_process_message"
            /\ UNCHANGED chatResult
       ELSE /\ chatPc' = "done"
            /\ chatResult' = Http500("TypeError")
    /\ UNCHANGED <<chatIn, user_info, required_scope, xaaInfo, xaaRequests, vaultInfo>>
    /\ UNCHANGED <<vaultVars, pmVars, mcpVars, turnVars, scopeVars, xaaVars, traceVars, calVars, seedVars>>


ChatNext ==
    \/ ChatValidate
    \/ ChatXAA
    \/ \E ra \in ChatStepAResponses("google"), ra2 \in ChatStepAResponses("google"),
          rb \in ChatStepBResponses("google") : ChatVaultGoogle(ra, ra2, rb)
    \/ \E ra \in ChatStepAResponses("salesforce"), ra2 \in ChatStepAResponses("salesforce"),
          rb \in ChatStepBResponses("salesforce") : ChatVaultSalesforce(ra, ra2, rb)
    \/ ChatProcess

(***************************************************************************)
(* The response chat builds after STEP 4 (api/main.py 327-389), as a       *)
(* function of the handler's locals.                                       *)
(***************************************************************************)
\* Two values a token of one kind and audience can have.
TokenValues == {1, 2}

\* The locals the response is built from: per audience whether STEP 2 left
\* a token mapping; per vault audience whether STEP 3 left nothing, the
\* vault token only, or the vault token and the connection token (STEP 3
\* runs for an audience only on its STEP 2 token); and the value the turn's
\* tokens have.
TraceInputs ==
    {in \in [xaa : [Audiences -> BOOLEAN],
             vault : [VaultAudiences -> {"none", "vault_token", "connected"}],
             value : TokenValues] :
        \A aud \in VaultAudiences : in.vault[aud] # "none" => in.xaa[aud]}

\* The tool lists of a turn that called one tool of each flow.
OneToolPerFlow ==
    [tools_called |-> <<"get_client", "list_calendar_events", "get_sales_pipeline">>,
     xaa_tools_called |-> <<"get_client">>,
     vault_tools_called |-> <<"list_calendar_events">>,
     salesforce_tools_called |-> <<"get_sales_pipeline">>]

\* xaa_info[aud] (lines 328-361).
XaaInfoEntry(aud, in) ==
    IF in.xaa[aud]
    THEN Some([token_obtained |-> TRUE,
               auth_server_id |-> AUTH_SERVER_IDS[aud],
               audience |-> aud,
               id_jag_token |-> IdJag(aud, in.value),
               access_token |-> [AccessToken(aud) EXCEPT !.n = in.value]])
    ELSE None

\* token_vault_info[aud] (lines 364-380).
TokenVaultInfoEntry(aud, in) ==
    IF in.vault[aud] # "none"
    THEN Some([connected |-> in.vault[aud] = "connected",
               vault_token |-> [kind |-> "vault", aud |-> aud, n |-> in.value,
                                src |-> "aat"],
               token |-> IF in.vault[aud] = "connected"
                         THEN [ConnectionToken(aud) EXCEPT !.n = in.value]
                         ELSE NoToken,
               connection |-> IF aud = "google" THEN "google-oauth2" ELSE "salesforce"])
    ELSE None

\* The ChatResponse returned at lines 382-389; returned is what
\* process_message gave back.
ChatResponseOf(in) ==
    LET pm_in == [mcp_token |-> IF in.xaa["mcp"]
                               THEN [AccessToken("mcp") EXCEPT !.n = in.value]
                               ELSE NoToken,
                 google_token |-> IF in.vault["google"] = "connected"
                                  THEN [ConnectionToken("google") EXCEPT !.n = in.value]
                                  ELSE NoToken,
                 salesforce_token |-> IF in.vault["salesforce"] = "connected"
                                      THEN [ConnectionToken("salesforce") EXCEPT !.n = in.value]
                                      ELSE NoToken]
        returned == FinalResult([stop_reason |-> "end_turn",
                                 content |-> <<TextBlock("Here is the portfolio summary.")>>],
                                pm_in, OneToolPerFlow)
    IN [content |-> returned.content,
        agent_type |-> returned.agent_type,
        tools_called |-> returned.tools_called,
        security_info |-> returned.security_info,
        xaa_info |-> [aud \in Audiences |-> XaaInfoEntry(aud, in)],
        token_vault_info |-> [aud \in VaultAudiences |-> TokenVaultInfoEntry(aud, in)]]

\* Lines 327-389 run once on the handler's locals.
AssembleResponse ==
    /\ traceIn # None
    /\ traceOut = None
    /\ traceOut' = Some(ChatResponseOf(traceIn.val))
    /\ UNCHANGED traceIn
    /\ UNCHANGED <<vaultVars, pmVars, chatVars, mcpVars, turnVars, scopeVars, xaaVars, calVars, seedVars>>

TraceNext == AssembleResponse

(***************************************************************************)
(* WealthMCP (mcp_server/wealth_mcp.py) and POST /call_tool                *)
(* (mcp_server/mcp_api.py).  An argument value is tagged with its JSON     *)
(* type; identifiers and names are sequences of characters.                *)
(***************************************************************************)
Missing == [t |-> "missing"]
Null == [t |-> "null"]
Str(s) == [t |-> "str", s |-> s]
Num(n) == [t |-> "int", n |-> n]

\* args.get(key, default)
Get(v, default) == IF v.t = "missing" THEN default ELSE v

\* str.upper(), character by character.
ToUpper(s) ==
    [i \in 1..Len(s) |->
        IF \E u \in DOMAIN UpperToLower : UpperToLower[u] = s[i]
        THEN CHOOSE u \in DOMAIN UpperToLower : UpperToLower[u] = s[i]
        ELSE s[i]]

\* clients_data["clients"], in the order of the mapping.
Clients ==
    <<[id |-> <<"C", "L", "T", "0", "0", "1">>, name |-> <<"M", "a", "r", "c", "u", "s", " ", "T", "h",
                                 "o", "m", "p", "s", "o", "n">>,
       compliance_status |-> "clear", trading_restrictions |-> <<>>],
      [id |-> <<"C", "L", "T", "0", "0", "2">>, name |-> <<"E", "l", "e", "n", "a", " ", "R", "o", "d",
                                 "r", "i", "g", "u", "e", "z">>,
       compliance_status |-> "clear", trading_restrictions |-> <<>>],
      [id |-> <<"C", "L", "T", "0", "0", "3">>, name |-> <<"J", "a", "m", "e", "s", " ", "C", "h", "e",
                                 "n">>,
       compliance_status |-> "clear",
       trading_restrictions |-> <<
        <<"C", "o", "n", "c", "e", "n", "t", "r", "a", "t", "e", "d", " ", "p",
          "o", "s", "i", "t", "i", "o", "n", " ", "i", "n", " ", "P", "R", "I",
          "V", "A", "T", "E", " ", "-", " ", "d", "i", "v", "e", "r", "s", "i",
          "f", "i", "c", "a", "t", "i", "o", "n", " ", "r", "e", "c", "o", "m",
          "m", "e", "n", "d", "e", "d">>>>],
      [id |-> <<"C", "L", "T", "0", "0", "4">>, name |-> <<"P", "r", "i", "y", "a", " ", "P", "a", "t",
                                 "e", "l">>,
       compliance_status |-> "clear", trading_restrictions |-> <<>>],
      [id |-> <<"C", "L", "T", "0", "0", "5">>, name |-> <<"R", "o", "b", "e", "r", "t", " ", "W", "i",
                                 "l", "l", "i", "a", "m", "s">>,
       compliance_status |-> "hold",
       trading_restrictions |-> <<
        <<"N", "O", " ", "T", "R", "A", "D", "E", "S", " ", "-", " ", "C", "o",
          "m", "p", "l", "i", "a", "n", "c", "e", " ", "h", "o", "l", "d">>,
        <<"N", "O", " ", "W", "I", "T", "H", "D", "R", "A", "W", "A", "L", "S",
          " ", "-", " ", "C", "o", "u", "r", "t", " ", "o", "r", "d", "e", "r">>>>]>>

blocked_recipients ==
    {"Offshore Holdings LLC", "Anonymous Trust", "Unverified Account",
     "Crypto Exchange XYZ"}

\* clients_data["transaction_limits"]
auto_approve == 1000
requires_step_up == 10000
requires_compliance == 50000

\* _find_client: the index of the first client whose id equals the
\* identifier or whose name contains it, both lowered; 0 when there is
\* none.  An identifier that is not a string has no lower(): it raises.
FindClient(identifier) ==
    IF identifier.t # "str" THEN [raised |-> TRUE, idx |-> 0]
    ELSE LET identifier_lower == ToLower(identifier.s)
             hit(i) == \/ ToLower(Clients[i].id) = identifier_lower
                       \/ Contains(ToLower(Clients[i].name), identifier_lower)
         IN [raised |-> FALSE,
             idx |-> IF \E i \in 1..Len(Clients) : hit(i)
                     THEN CHOOSE i \in 1..Len(Clients) :
                              hit(i) /\ \A j \in 1..(i - 1) : ~hit(j)
                     ELSE 0]

\* _check_compliance
CheckCompliance(client) == client.compliance_status = "clear"

\* any("NO" in r.upper() for r in restrictions)
HasTradingRestriction(client) ==
    \E i \in 1..Len(client.trading_restrictions) :
        Contains(ToUpper(client.trading_restrictions[i]), <<"N", "O">>)

\* _tool_get_client and _tool_get_portfolio
ToolGetClient(args) ==
    LET found == FindClient(Get(args.client_identifier, Str(<<>>)))
    IN IF found.raised THEN Raise
       ELSE IF found.idx = 0 THEN Result("client_not_found", "none", "none", "none")
       ELSE IF ~CheckCompliance(Clients[found.idx])
       THEN Result("access_denied", "none", "none", "none")
       ELSE Result("none", "none", "Internal Portfolio Management System", "none")

\* _tool_list_clients
ToolListClients(args) ==
    Result("none", "none", "Internal Portfolio Management System", "none")

\* A blocked payment names the control that blocked it.
PaymentBlocked(control) ==
    [error |-> "payment_blocked", status |-> "none", source |-> "none",
     security_flow |-> "none", security_control |-> control]

\* Mutant of ToolProcessPayment: the amount decides first, and the
\* blocked-recipient list is consulted only for amounts that need more than
\* automatic approval.
ToolProcessPayment_AmountFirst(args) ==
    LET found == FindClient(Get(args.client_identifier, Str(<<>>)))
        amount == Get(args.amount, Num(0))
        recipient == Get(args.recipient, Str(""))
    IN IF found.raised THEN Raise
       ELSE IF found.idx = 0 THEN Result("client_not_found", "none", "none", "none")
       ELSE IF amount.t # "int" THEN Raise
       ELSE IF amount.n < auto_approve
       THEN Result("none", "approved", "none", "none")
       ELSE IF ~CheckCompliance(Clients[found.idx])
       THEN PaymentBlocked("FGA - Compliance Hold")
       ELSE IF HasTradingRestriction(Clients[found.idx])
       THEN PaymentBlocked("Trading Restriction")
       ELSE IF recipient.t = "str" /\ recipient.s \in blocked_recipients
       THEN PaymentBlocked("Risk Policy - Blocked Recipient List")
       ELSE IF amount.n >= requires_compliance
       THEN Result("none", "compliance_review_required", "none", "none")
       ELSE IF amount.n >= requires_step_up
       THEN Result("none", "step_up_required", "none", "none")
       ELSE Result("none", "approved", "none", "none")

\* _tool_process_payment.  Comparing an amount that is not a number with a
\* limit raises.
ToolProcessPayment(args) ==
    LET found == FindClient(Get(args.client_identifier, Str(<<>>)))
        amount == Get(args.amount, Num(0))
        recipient == Get(args.recipient, Str(""))
    IN IF found.raised THEN Raise
       ELSE IF found.idx = 0 THEN Result("client_not_found", "none", "none", "none")
       ELSE IF ~CheckCompliance(Clients[found.idx])
       THEN PaymentBlocked("FGA - Compliance Hold")
       ELSE IF HasTradingRestriction(Clients[found.idx])
       THEN PaymentBlocked("Trading Restriction")
       ELSE IF recipient.t = "str" /\ recipient.s \in blocked_recipients
       THEN PaymentBlocked("Risk Policy - Blocked Recipient List")
       ELSE IF amount.t # "int" THEN Raise
       ELSE IF amount.n >= requires_compliance
       THEN Result("none", "compliance_review_required", "none", "none")
       ELSE IF amount.n >= requires_step_up
       THEN Result("none", "step_up_required", "none", "none")
       ELSE Result("none", "approved", "none", "none")

\* The clients _tool_list_clients can show: a client that fails the
\* compliance check is counted and skipped.
ListedClients == {i \in 1..Len(Clients) : CheckCompliance(Clients[i])}

\* Mutant of ToolUpdateClient: whatever field is named is overwritten.
ToolUpdateClient_AnyField(args) ==
    LET found == FindClient(Get(args.client_identifier, Str(<<>>)))
        field == Get(args.field, Str(""))
    IN IF found.raised THEN [result |-> Raise, updates |-> {}]
       ELSE IF found.idx = 0
       THEN [result |-> Result("client_not_found", "none", "none", "none"),
             updates |-> {}]
       ELSE IF field.t = "str"
       THEN [result |-> Result("none", "updated", "none", "none"),
             updates |-> {<<found.idx, field.s>>}]
       ELSE [result |-> Result("invalid_field", "none", "none", "none"),
             updates |-> {}]

\* _tool_update_client: the result, and the client field it overwrites.
ToolUpdateClient(args) ==
    LET found == FindClient(Get(args.client_identifier, Str(<<>>)))
        field == Get(args.field, Str(""))
    IN IF found.raised THEN [result |-> Raise, updates |-> {}]
       ELSE IF found.idx = 0
       THEN [result |-> Result("client_not_found", "none", "none", "none"),
             updates |-> {}]
       ELSE IF field.t = "str" /\ field.s \in {"phone", "email", "address"}
       THEN [result |-> Result("none", "updated", "none", "none"),
             updates |-> {<<found.idx, field.s>>}]
       ELSE [result |-> Result("invalid_field", "none", "none", "none"),
             updates |-> {}]

\* user_info as call_tool receives it.
UserInfos == {"None", "empty", "with_mcp_token"}

\* Mutant of CallTool: no handler around the dispatch.
CallTool_NoHandler(tool_name, arguments, userInfo) ==
    LET out(r, x, u) == [result |-> r, executed |-> x, updates |-> u]
    IN IF userInfo = "None" THEN out(Raise, FALSE, {})
       ELSE IF tool_name = "get_client" \/ tool_name = "get_portfolio"
       THEN out(ToolGetClient(arguments), TRUE, {})
       ELSE IF tool_name = "list_clients"
       THEN out(ToolListClients(arguments), TRUE, {})
       ELSE IF tool_name = "process_payment"
       THEN out(ToolProcessPayment(arguments), TRUE, {})
       ELSE IF tool_name = "update_client"
       THEN out(ToolUpdateClient(arguments).result, TRUE,
                ToolUpdateClient(arguments).updates)
       ELSE out(Result("Unknown tool", "none", "none", "none"), FALSE, {})

\* WealthMCP.call_tool: a missing mcp_token is logged and the tool is
\* dispatched all the same; an exception becomes {"error": str(e)}.
CallTool(tool_name, arguments, userInfo) ==
    LET out(r, x, u) == [result |-> r, executed |-> x, updates |-> u]
        caught(o) == IF o.result = Raise
                     THEN [o EXCEPT !.result =
                              Result("exception", "none", "none", "none")]
                     ELSE o
    IN IF userInfo = "None" THEN caught(out(Raise, FALSE, {}))
       ELSE IF tool_name = "get_client" \/ tool_name = "get_portfolio"
       THEN caught(out(ToolGetClient(arguments), TRUE, {}))
       ELSE IF tool_name = "list_clients"
       THEN caught(out(ToolListClients(arguments), TRUE, {}))
       ELSE IF tool_name = "process_payment"
       THEN caught(out(ToolProcessPayment(arguments), TRUE, {}))
       ELSE IF tool_name = "update_client"
       THEN caught(out(ToolUpdateClient(arguments).result, TRUE,
                       ToolUpdateClient(arguments).updates))
       ELSE out(Result("Unknown tool", "none", "none", "none"), FALSE, {})

\* Argument mappings of the calls: identifiers by id, by part of a name, of
\* nobody, null and absent; amounts on both sides of every limit, null, a
\* string and absent; a listed and an unlisted recipient.
NoArgs == [client_identifier |-> Missing, amount |-> Missing,
           recipient |-> Missing, field |-> Missing]

Identifiers ==
    {Missing, Null, Str(<<"C", "L", "T", "0", "0", "1">>), Str(<<"c", "l", "t", "0", "0", "5">>),
     Str(<<"c", "h", "e", "n">>), Str(<<"N", "o", "b", "o", "d", "y">>)}

Amounts ==
    {Missing, Null, Str("15000"), Num(0 - 1), Num(999), Num(9999),
     Num(10000), Num(49999), Num(50000)}

Recipients == {Str("Bob"), Str("Offshore Holdings LLC")}

Fields == {Missing, Str("phone"), Str("name")}

ToolCalls ==
    {[tool_name |-> "process_payment",
      arguments |-> [NoArgs EXCEPT !.client_identifier = i, !.amount = a,
                                   !.recipient = r]]
        : i \in Identifiers, a \in Amounts, r \in Recipients}
    \cup {[tool_name |-> t, arguments |-> [NoArgs EXCEPT !.client_identifier = i]]
            : t \in {"get_client", "get_portfolio"}, i \in Identifiers}
    \cup {[tool_name |-> "update_client",
           arguments |-> [NoArgs EXCEPT !.client_identifier = i, !.field = f]]
            : i \in Identifiers, f \in Fields}
    \cup {[tool_name |-> t, arguments |-> NoArgs]
            : t \in {"list_clients", "export_report"}}

\* What call_tool answers to each call, worked out once.
CallToolAnswers ==
    [call \in ToolCalls, u \in UserInfos |->
        CallTool(call.tool_name, call.arguments, u)]

NoRequest == [entry |-> "none"]

\* Calls made in one run of the backend.
MaxToolCalls == 2

\* A caller invokes WealthMCP.call_tool.
MCPCallTool(call, userInfo) ==
    LET o == CallToolAnswers[call, userInfo]
    IN /\ mcpReq' = [entry |-> "call_tool", tool_name |-> call.tool_name,
                     arguments |-> call.arguments, user_info |-> userInfo,
                     bearer |-> FALSE, verified |-> FALSE]
       /\ mcpOut' = Some(o.result)
       /\ mcpExecuted' = o.executed
       /\ clientUpdates' = clientUpdates \cup o.updates
       /\ mcpCalls' = mcpCalls + 1
       /\ UNCHANGED <<vaultVars, pmVars, chatVars, turnVars, scopeVars, xaaVars, traceVars, calVars, seedVars>>

\* POST /call_tool: the bearer token, when there is one, is verified; the
\* tool is called whatever the outcome, with the token in user_info only
\* when verify_mcp_token returned claims.
ApiCallTool(call, bearer, verified) ==
    LET userInfo == IF bearer /\ verified THEN "with_mcp_token" ELSE "empty"
        o == CallToolAnswers[call, userInfo]
    IN /\ mcpReq' = [entry |-> "api", tool_name |-> call.tool_name,
                     arguments |-> call.arguments, user_info |-> userInfo,
                     bearer |-> bearer, verified |-> bearer /\ verified]
       /\ mcpOut' = Some(o.result)
       /\ mcpExecuted' = o.executed
       /\ clientUpdates' = clientUpdates \cup o.updates
       /\ mcpCalls' = mcpCalls + 1
       /\ UNCHANGED <<vaultVars, pmVars, chatVars, turnVars, scopeVars, xaaVars, traceVars, calVars, seedVars>>

MCPNext ==
    \/ /\ mcpCalls < MaxToolCalls
       /\ \E call \in ToolCalls, u \in UserInfos : MCPCallTool(call, u)
    \/ /\ mcpCalls < MaxToolCalls
       /\ \E call \in ToolCalls, b \in BOOLEAN :
             \E v \in (IF b THEN BOOLEAN ELSE {FALSE}) : ApiCallTool(call, b, v)


(***************************************************************************)
(* GoogleCalendarTools, write tools (tools/google_calendar.py).  An event   *)
(* of the mock calendar is the number n of its id "evt" + n in three        *)
(* digits; the formatting is one-to-one on the numbers that occur.          *)
(***************************************************************************)
\* _initialize_mock_events: evt001 .. evt005.
InitialEvents == <<1, 2, 3, 4, 5>>

\* _call_google_api returns, or raises (a status of 400 and above, a timeout).
ApiOutcomes == {"ok", "fail"}

\* The ids a caller names: those of the initial events and the next two.
EventIds == 1..(Len(InitialEvents) + 2)

\* Write calls made on one GoogleCalendarTools.
MaxCalendarCalls == 3

\* A calendar result; event_id 0 stands for an id Google assigned.
CalResult(error, status, source, event_id) ==
    [error |-> error, status |-> status, source |-> source, event_id |-> event_id]

\* list.pop(i)
RemoveAt(list, i) == SubSeq(list, 1, i - 1) \o SubSeq(list, i + 1, Len(list))

\* _create_event: with a token the Google API is called; when there is no
\* token or that call raised, the event is appended to the mock calendar
\* under the id made from the calendar's length.  Parsing start_time or
\* adding the duration can raise before anything else happens.
CreateEvent(events, has_token, api, parses) ==
    IF ~parses THEN [events |-> events, result |-> Raise]
    ELSE IF has_token /\ api = "ok"
    THEN [events |-> events,
          result |-> CalResult("none", "created",
                               "Google Calendar (via Auth0 Token Vault)", 0)]
    ELSE LET id == Len(events) + 1
         IN [events |-> Append(events, id),
             result |-> CalResult("none", "created", "Demo Data (Mock)", id)]

\* _cancel_event: with a token the Google API is called; when there is no
\* token or that call raised, the first mock event of that id is popped.
CancelEvent(events, event_id, has_token, api) ==
    IF has_token /\ api = "ok"
    THEN [events |-> events,
          result |-> CalResult("none", "cancelled",
                               "Google Calendar (via Auth0 Token Vault)", event_id)]
    ELSE IF \E i \in 1..Len(events) : events[i] = event_id
    THEN LET i == CHOOSE k \in 1..Len(events) :
                      events[k] = event_id /\ \A j \in 1..(k - 1) : events[j] # event_id
         IN [events |-> RemoveAt(events, i),
             result |-> CalResult("none", "cancelled", "none", event_id)]
    ELSE [events |-> events,
          result |-> CalResult("not_found", "none", "none", event_id)]

\* call_tool("create_calendar_event", args, google_token)
CalCreate(has_token, api, parses) ==
    /\ calCalls < MaxCalendarCalls
    /\ LET r == CreateEvent(mock_events, has_token, api, parses)
       IN /\ mock_events' = r.events
          /\ calOut' = Some(r.result)
    /\ calReq' = [called |-> TRUE, tool |-> "create_calendar_event", event_id |-> 0,
                  has_token |-> has_token, api |-> api]
    /\ calCalls' = calCalls + 1
    /\ UNCHANGED seedVars
    /\ UNCHANGED <<vaultVars, pmVars, chatVars, mcpVars, turnVars, scopeVars, xaaVars, traceVars>>

\* call_tool("cancel_calendar_event", {"event_id": ...}, google_token)
CalCancel(event_id, has_token, api) ==
    /\ calCalls < MaxCalendarCalls
    /\ LET r == CancelEvent(mock_events, event_id, has_token, api)
       IN /\ mock_events' = r.events
          /\ calOut' = Some(r.result)
    /\ calReq' = [called |-> TRUE, tool |-> "cancel_calendar_event",
                  event_id |-> event_id, has_token |-> has_token, api |-> api]
    /\ calCalls' = calCalls + 1
    /\ UNCHANGED seedVars
    /\ UNCHANGED <<vaultVars, pmVars, chatVars, mcpVars, turnVars, scopeVars, xaaVars, traceVars>>

\* Without a token no API call is made, so its outcome is no input.
CalApiOutcomes(has_token) == IF has_token THEN ApiOutcomes ELSE {"not called"}

CalNext ==
    \/ \E has_token \in BOOLEAN, parses \in BOOLEAN :
          \E api \in CalApiOutcomes(has_token) : CalCreate(has_token, api, parses)
    \/ \E event_id \in EventIds, has_token \in BOOLEAN :
          \E api \in CalApiOutcomes(has_token) : CalCancel(event_id, has_token, api)

(***************************************************************************)
(* The message list of the first oracle call (claude_service.py 346-354).  *)
(* A history entry is a mapping with a role and a content; the content is  *)
(* the entry's number in the conversation, the new message has content 0.  *)
(***************************************************************************)
\* conversation_history[-10:]
HistoryWindow == 10

\* Length of the histories tried.
MaxHistory == 11

HistoryRoles == {"user", "assistant"}

Histories ==
    UNION {{[i \in 1..n |-> [role |-> r[i], content |-> i]]
              : r \in [1..n -> HistoryRoles]} : n \in 0..MaxHistory}

\* msg.get(key, default) on a history entry.
EntryGet(msg, key, default) == IF key \in DOMAIN msg THEN msg[key] ELSE default

\* Mutant of BuildMessages: the window is taken from the front of the
\* history.
BuildMessages_FromFront(conversation_history, message) ==
    LET n == Len(conversation_history)
        last == IF n > HistoryWindow THEN HistoryWindow ELSE n
    IN [i \in 1..last |->
           [role |-> EntryGet(conversation_history[i], "role", "user"),
            content |-> EntryGet(conversation_history[i], "content", "")]]
       \o <<[role |-> "user", content |-> message]>>

\* The list process_message builds before its first messages.create.
BuildMessages(conversation_history, message) ==
    LET n == Len(conversation_history)
        first == IF n > HistoryWindow THEN n - HistoryWindow + 1 ELSE 1
    IN [i \in 1..(n - first + 1) |->
           [role |-> EntryGet(conversation_history[first + i - 1], "role", "user"),
            content |-> EntryGet(conversation_history[first + i - 1], "content", "")]]
       \o <<[role |-> "user", content |-> message]>>

\* process_message up to its first messages.create.
SeedFirstCall ==
    /\ seedIn # None
    /\ seedOut = None
    /\ seedOut' = Some(BuildMessages(seedIn.val, 0))
    /\ UNCHANGED seedIn
    /\ UNCHANGED calVars
    /\ UNCHANGED <<vaultVars, pmVars, chatVars, mcpVars, turnVars, scopeVars, xaaVars, traceVars>>

SeedNext == SeedFirstCall

(***************************************************************************)
(* Two requests against the one TokenVaultClient of api/main.py (line 133). *)
(* A request runs STEP 3 of chat (main.py 287-306) with the XAA tokens it   *)
(* holds.  Every call chat awaits in STEP 3 ends in a blocking              *)
(* requests.post (token_vault.py 88, 171), so no await of a handler hands   *)
(* the event loop to another request: a request that arrives while a       *)
(* handler runs waits until that handler has returned.                     *)
(***************************************************************************)
Turns == {1, 2}

IdleTurn ==
    [pc |-> "idle", has |-> {}, behind |-> FALSE, vault_token |-> NoToken,
     step_a |-> <<>>, b |-> NoCall, in_process_message |-> FALSE,
     result |-> None]

\* Mutant of PcAfter: the Google block runs whether or not the handler
\* holds the Google XAA token.
PcAfter_GoogleAlways(stage, has) ==
    IF stage = "start" /\ vaultConfigured
    THEN "google_exchange"
    ELSE IF stage \in {"start", "google"} /\ vaultConfigured /\ "salesforce" \in has
    THEN "salesforce_exchange"
    ELSE "process_message"

\* The statement a handler goes to after the given audience's block of
\* STEP 3 (or, from "start", the first one): it exchanges for each audience
\* whose XAA token it holds, Google first, and then calls process_message.
PcAfter(stage, has) ==
    IF stage = "start" /\ vaultConfigured /\ "google" \in has
    THEN "google_exchange"
    ELSE IF stage \in {"start", "google"} /\ vaultConfigured /\ "salesforce" \in has
    THEN "salesforce_exchange"
    ELSE "process_message"

\* The event loop is free again once the handler has returned.
RunningAfter(t, pc) == IF pc = "done" THEN 0 ELSE t

\* What a Step A call leaves in cacheExchange: on a 200 answer, the token and
\* expires_in of that answer and the time of the call; otherwise no change.
CacheExchangeAfter(resp, r, t) ==
    IF r.net = 1 /\ resp.kind \in {"ok", "ok_no_token"}
    THEN [called |-> TRUE, token |-> r.ret, at |-> t,
          expires_in |-> IF resp.expires_in = Absent THEN DefaultExpiresIn
                         ELSE resp.expires_in]
    ELSE cacheExchange

\* A request arrives with the XAA tokens STEP 2 left it.
TurnArrive(t, has) ==
    /\ turn[t].pc = "idle"
    /\ turn' = [turn EXCEPT ![t] = [@ EXCEPT !.pc = "queued", !.has = has,
                                              !.behind = running # 0]]
    /\ UNCHANGED <<running, cacheExchange>>
    /\ UNCHANGED <<vaultVars, pmVars, chatVars, mcpVars, scopeVars, xaaVars, traceVars, calVars, seedVars>>

\* The event loop starts the handler of a waiting request.
TurnStart(t) ==
    /\ turn[t].pc = "queued"
    /\ running = 0
    /\ LET pc == PcAfter("start", turn[t].has)
       IN /\ turn' = [turn EXCEPT ![t] = [@ EXCEPT !.pc = pc]]
          /\ running' = RunningAfter(t, pc)
    /\ UNCHANGED cacheExchange
    /\ UNCHANGED <<vaultVars, pmVars, chatVars, mcpVars, scopeVars, xaaVars, traceVars, calVars, seedVars>>

\* main.py 290-293 / 300-303: exchange_okta_token_for_vault_token on the
\* audience's XAA access token; the composite follows when it returned a
\* token.
TurnExchange(t, aud, resp) ==
    /\ running = t
    /\ turn[t].pc = aud \o "_exchange"
    /\ LET okta_token == AccessToken(aud)
           r == ExchangeOktaTokenForVaultToken(CurrentCache, vaultConfigured,
                                               okta_token, resp, now, netA + 1)
           pc == IF Truthy(r.ret) THEN aud \o "_composite"
                 ELSE PcAfter(aud, turn[t].has)
       IN /\ vault_token' = r.cache.vault_token
          /\ vault_token_expires_at' = r.cache.expires_at
          /\ netA' = netA + r.net
          /\ lastA' = ARecord(okta_token, resp, r, now, CurrentCache)
          /\ lastC' = NoCall
          /\ cacheExchange' = CacheExchangeAfter(resp, r, now)
          /\ turn' = [turn EXCEPT ![t] = [@ EXCEPT !.pc = pc,
                                                   !.vault_token = r.ret,
                                                   !.step_a = Append(@, okta_token)]]
          /\ running' = RunningAfter(t, pc)
    /\ UNCHANGED <<vaultConfigured, now, lastB>>
    /\ UNCHANGED <<pmVars, chatVars, mcpVars, scopeVars, xaaVars, traceVars, calVars, seedVars>>

\* main.py 294 / 304: get_google_token / get_salesforce_token on the vault
\* token the handler holds (token_vault.py 218-258): Step A on it, whose
\* answer is the composite's local vault_token, then Step B on the cache.
TurnComposite(t, aud, connection, respA, respB) ==
    /\ running = t
    /\ turn[t].pc = aud \o "_composite"
    /\ LET okta_token == turn[t].vault_token
           r == ExchangeOktaTokenForVaultToken(CurrentCache, vaultConfigured,
                                               okta_token, respA, now, netA + 1)
           b == GetConnectionToken(r.cache, vaultConfigured,
                                   connection, NoToken, respB, now)
           pc == PcAfter(aud, turn[t].has)
       IN /\ vault_token' = r.cache.vault_token
          /\ vault_token_expires_at' = r.cache.expires_at
          /\ netA' = netA + r.net
          /\ lastA' = ARecord(okta_token, respA, r, now, CurrentCache)
          /\ lastB' = IF Truthy(r.ret) THEN b ELSE lastB
          /\ lastC' = CRecord(connection, okta_token, Truthy(r.ret),
                              IF Truthy(r.ret) THEN b ELSE NoCall)
          /\ cacheExchange' = CacheExchangeAfter(respA, r, now)
          /\ turn' = [turn EXCEPT ![t] =
                 [@ EXCEPT !.pc = pc,
                           !.step_a = Append(@, okta_token),
                           !.b = IF Truthy(r.ret)
                                 THEN [called |-> TRUE, sent |-> b.sent,
                                       connection |-> connection,
                                       presented |-> b.presented,
                                       vault_token |-> r.ret]
                                 ELSE @]]
          /\ running' = RunningAfter(t, pc)
    /\ UNCHANGED <<vaultConfigured, now>>
    /\ UNCHANGED <<pmVars, chatVars, mcpVars, scopeVars, xaaVars, traceVars, calVars, seedVars>>

\* Time passes while a request is being served.
TurnTick ==
    /\ now + TickStep <= MaxTime
    /\ now' = now + TickStep
    /\ UNCHANGED <<vaultConfigured, vault_token, vault_token_expires_at, netA,
                   lastA, lastB, lastC>>
    /\ UNCHANGED <<pmVars, chatVars, mcpVars, turnVars, scopeVars, xaaVars, traceVars, calVars, seedVars>>

\* STEP 4 (main.py 311-321): process_message is called with the keywords
\* chat passes; when the call does not bind, chat's handler answers 500
\* and the body of process_message, the oracle call included, never runs.
TurnProcess(t) ==
    /\ running = t
    /\ turn[t].pc = "process_message"
    /\ LET binds == CallBinds(ChatProcessMessageArgs, ProcessMessageParams)
       IN turn' = [turn EXCEPT ![t] =
                      [@ EXCEPT !.pc = "done",
                                !.in_process_message = binds,
                                !.result = IF binds THEN None
                                           ELSE Some(Http500("TypeError"))]]
    /\ running' = 0
    /\ UNCHANGED cacheExchange
    /\ UNCHANGED <<vaultVars, pmVars, chatVars, mcpVars, scopeVars, xaaVars, traceVars, calVars, seedVars>>

TurnsNext ==
    \/ \E t \in Turns, has \in SUBSET VaultAudiences : TurnArrive(t, has)
    \/ \E t \in Turns : TurnStart(t)
    \/ \E t \in Turns, resp \in StepAResponses :
          TurnExchange(t, "google", resp)
    \/ \E t \in Turns, resp \in StepAResponses :
          TurnExchange(t, "salesforce", resp)
    \/ \E t \in Turns, ra \in StepAResponses, rb \in StepBResponses :
          TurnComposite(t, "google", "google-oauth2", ra, rb)
    \/ \E t \in Turns, ra \in StepAResponses, rb \in StepBResponses :
          TurnComposite(t, "salesforce", "salesforce", ra, rb)
    \/ \E t \in Turns : TurnProcess(t)
    \/ TurnTick

(***************************************************************************)
(* Specifications.  Each runs one component; the others stay as built.     *)
(***************************************************************************)
\* The client as constructed, configured or not; no turn in progress.
VaultInit ==
    /\ vaultConfigured \in BOOLEAN
    /\ vault_token = NoToken
    /\ vault_token_expires_at = 0
    /\ now = 0
    /\ netA = 0
    /\ lastA = NoCall
    /\ lastB = NoCall
    /\ lastC = NoCall
    /\ pmPc = "idle"
    /\ pmIn = [mcp_token |-> NoToken, google_token |-> NoToken,
               salesforce_token |-> NoToken, mcp_server |-> TRUE,
               calendar_tools |-> TRUE, client |-> TRUE]
    /\ response = NoResponse
    /\ messages = <<>>
    /\ tools_called = <<>>
    /\ xaa_tools_called = <<>>
    /\ vault_tools_called = <<>>
    /\ salesforce_tools_called = <<>>
    /\ tool_results = <<>>
    /\ backendCalls = <<>>
    /\ allResults = <<>>
    /\ rounds = 0
    /\ pmResult = None
    /\ chatPc = "idle"
    /\ chatIn = [text |-> <<>>, id_token |-> FALSE, id_valid |-> FALSE,
                 sdk_level |-> 0, xaa |-> [aud \in Audiences |-> "ok"]]
    /\ user_info = "None"
    /\ required_scope = "None"
    /\ xaaInfo = [aud \in Audiences |-> NoInfo]
    /\ xaaRequests = <<>>
    /\ vaultInfo = [aud \in VaultAudiences |-> NoToken]
    /\ chatResult = None
    /\ mcpReq = NoRequest
    /\ mcpOut = None
    /\ mcpExecuted = FALSE
    /\ clientUpdates = {}
    /\ mcpCalls = 0
    /\ turn = [t \in Turns |-> IdleTurn]
    /\ running = 0
    /\ cacheExchange = NoCall
    /\ scopeCalls = <<>>
    /\ xaaSdkLevel = 0
    /\ xaaCalls = <<>>
    /\ traceIn = None
    /\ traceOut = None
    /\ mock_events = InitialEvents
    /\ calReq = NoCall
    /\ calOut = None
    /\ calCalls = 0
    /\ seedIn = None
    /\ seedOut = None

\* process_message about to be called with any arguments.
PMInit ==
    /\ pmPc = "idle"
    /\ pmIn \in PMInputs
    /\ response = NoResponse
    /\ messages = <<>>
    /\ tools_called = <<>>
    /\ xaa_tools_called = <<>>
    /\ vault_tools_called = <<>>
    /\ salesforce_tools_called = <<>>
    /\ tool_results = <<>>
    /\ backendCalls = <<>>
    /\ allResults = <<>>
    /\ rounds = 0
    /\ pmResult = None
    /\ vaultConfigured = TRUE
    /\ vault_token = NoToken
    /\ vault_token_expires_at = 0
    /\ now = 0
    /\ netA = 0
    /\ lastA = NoCall
    /\ lastB = NoCall
    /\ lastC = NoCall
    /\ chatPc = "idle"
    /\ chatIn = [text |-> <<>>, id_token |-> FALSE, id_valid |-> FALSE,
                 sdk_level |-> 0, xaa |-> [aud \in Audiences |-> "ok"]]
    /\ user_info = "None"
    /\ required_scope = "None"
    /\ xaaInfo = [aud \in Audiences |-> NoInfo]
    /\ xaaRequests = <<>>
    /\ vaultInfo = [aud \in VaultAudiences |-> NoToken]
    /\ chatResult = None
    /\ mcpReq = NoRequest
    /\ mcpOut = None
    /\ mcpExecuted = FALSE
    /\ clientUpdates = {}
    /\ mcpCalls = 0
    /\ turn = [t \in Turns |-> IdleTurn]
    /\ running = 0
    /\ cacheExchange = NoCall
    /\ scopeCalls = <<>>
    /\ xaaSdkLevel = 0
    /\ xaaCalls = <<>>
    /\ traceIn = None
    /\ traceOut = None
    /\ mock_events = InitialEvents
    /\ calReq = NoCall
    /\ calOut = None
    /\ calCalls = 0
    /\ seedIn = None
    /\ seedOut = None

\* A chat request arrives at a service whose vault client is as constructed.
ChatInit ==
    /\ chatPc = "start"
    /\ chatIn \in ChatInputs
    /\ user_info = "None"
    /\ required_scope = "None"
    /\ xaaInfo = [aud \in Audiences |-> NoInfo]
    /\ xaaRequests = <<>>
    /\ vaultInfo = [aud \in VaultAudiences |-> NoToken]
    /\ chatResult = None
    /\ vaultConfigured \in BOOLEAN
    /\ vault_token = NoToken
    /\ vault_token_expires_at = 0
    /\ now = 0
    /\ netA = 0
    /\ lastA = NoCall
    /\ lastB = NoCall
    /\ lastC = NoCall
    /\ pmPc = "idle"
    /\ pmIn = [mcp_token |-> NoToken, google_token |-> NoToken,
               salesforce_token |-> NoToken, mcp_server |-> TRUE,
               calendar_tools |-> TRUE, client |-> TRUE]
    /\ response = NoResponse
    /\ messages = <<>>
    /\ tools_called = <<>>
    /\ xaa_tools_called = <<>>
    /\ vault_tools_called = <<>>
    /\ salesforce_tools_called = <<>>
    /\ tool_results = <<>>
    /\ backendCalls = <<>>
    /\ allResults = <<>>
    /\ rounds = 0
    /\ pmResult = None
    /\ mcpReq = NoRequest
    /\ mcpOut = None
    /\ mcpExecuted = FALSE
    /\ clientUpdates = {}
    /\ mcpCalls = 0
    /\ turn = [t \in Turns |-> IdleTurn]
    /\ running = 0
    /\ cacheExchange = NoCall
    /\ scopeCalls = <<>>
    /\ xaaSdkLevel = 0
    /\ xaaCalls = <<>>
    /\ traceIn = None
    /\ traceOut = None
    /\ mock_events = InitialEvents
    /\ calReq = NoCall
    /\ calOut = None
    /\ calCalls = 0
    /\ seedIn = None
    /\ seedOut = None

\* The backend as constructed, no call made yet.
MCPInit ==
    /\ mcpReq = NoRequest
    /\ mcpOut = None
    /\ mcpExecuted = FALSE
    /\ clientUpdates = {}
    /\ mcpCalls = 0
    /\ turn = [t \in Turns |-> IdleTurn]
    /\ running = 0
    /\ cacheExchange = NoCall
    /\ scopeCalls = <<>>
    /\ xaaSdkLevel = 0
    /\ xaaCalls = <<>>
    /\ traceIn = None
    /\ traceOut = None
    /\ vaultConfigured = TRUE
    /\ vault_token = NoToken
    /\ vault_token_expires_at = 0
    /\ now = 0
    /\ netA = 0
    /\ lastA = NoCall
    /\ lastB = NoCall
    /\ lastC = NoCall
    /\ chatPc = "idle"
    /\ chatIn = [text |-> <<>>, id_token |-> FALSE, id_valid |-> FALSE,
                 sdk_level |-> 0, xaa |-> [aud \in Audiences |-> "ok"]]
    /\ user_info = "None"
    /\ required_scope = "None"
    /\ xaaInfo = [aud \in Audiences |-> NoInfo]
    /\ xaaRequests = <<>>
    /\ vaultInfo = [aud \in VaultAudiences |-> NoToken]
    /\ chatResult = None
    /\ pmPc = "idle"
    /\ pmIn = [mcp_token |-> NoToken, google_token |-> NoToken,
               salesforce_token |-> NoToken, mcp_server |-> TRUE,
               calendar_tools |-> TRUE, client |-> TRUE]
    /\ response = NoResponse
    /\ messages = <<>>
    /\ tools_called = <<>>
    /\ xaa_tools_called = <<>>
    /\ vault_tools_called = <<>>
    /\ salesforce_tools_called = <<>>
    /\ tool_results = <<>>
    /\ backendCalls = <<>>
    /\ allResults = <<>>
    /\ rounds = 0
    /\ pmResult = None
    /\ mock_events = InitialEvents
    /\ calReq = NoCall
    /\ calOut = None
    /\ calCalls = 0
    /\ seedIn = None
    /\ seedOut = None

TurnsInit ==
    /\ mcpReq = NoRequest
    /\ mcpOut = None
    /\ mcpExecuted = FALSE
    /\ clientUpdates = {}
    /\ mcpCalls = 0
    /\ turn = [t \in Turns |-> IdleTurn]
    /\ running = 0
    /\ cacheExchange = NoCall
    /\ scopeCalls = <<>>
    /\ xaaSdkLevel = 0
    /\ xaaCalls = <<>>
    /\ traceIn = None
    /\ traceOut = None
    /\ vaultConfigured \in BOOLEAN
    /\ vault_token = NoToken
    /\ vault_token_expires_at = 0
    /\ now = 0
    /\ netA = 0
    /\ lastA = NoCall
    /\ lastB = NoCall
    /\ lastC = NoCall
    /\ chatPc = "idle"
    /\ chatIn = [text |-> <<>>, id_token |-> FALSE, id_valid |-> FALSE,
                 sdk_level |-> 0, xaa |-> [aud \in Audiences |-> "ok"]]
    /\ user_info = "None"
    /\ required_scope = "None"
    /\ xaaInfo = [aud \in Audiences |-> NoInfo]
    /\ xaaRequests = <<>>
    /\ vaultInfo = [aud \in VaultAudiences |-> NoToken]
    /\ chatResult = None
    /\ pmPc = "idle"
    /\ pmIn = [mcp_token |-> NoToken, google_token |-> NoToken,
               salesforce_token |-> NoToken, mcp_server |-> TRUE,
               calendar_tools |-> TRUE, client |-> TRUE]
    /\ response = NoResponse
    /\ messages = <<>>
    /\ tools_called = <<>>
    /\ xaa_tools_called = <<>>
    /\ vault_tools_called = <<>>
    /\ salesforce_tools_called = <<>>
    /\ tool_results = <<>>
    /\ backendCalls = <<>>
    /\ allResults = <<>>
    /\ rounds = 0
    /\ pmResult = None
    /\ mock_events = InitialEvents
    /\ calReq = NoCall
    /\ calOut = None
    /\ calCalls = 0
    /\ seedIn = None
    /\ seedOut = None

ScopeInit ==
    /\ mcpReq = NoRequest
    /\ mcpOut = None
    /\ mcpExecuted = FALSE
    /\ clientUpdates = {}
    /\ mcpCalls = 0
    /\ turn = [t \in Turns |-> IdleTurn]
    /\ running = 0
    /\ cacheExchange = NoCall
    /\ scopeCalls = <<>>
    /\ xaaSdkLevel = 0
    /\ xaaCalls = <<>>
    /\ traceIn = None
    /\ traceOut = None
    /\ vaultConfigured = TRUE
    /\ vault_token = NoToken
    /\ vault_token_expires_at = 0
    /\ now = 0
    /\ netA = 0
    /\ lastA = NoCall
    /\ lastB = NoCall
    /\ lastC = NoCall
    /\ chatPc = "idle"
    /\ chatIn = [text |-> <<>>, id_token |-> FALSE, id_valid |-> FALSE,
                 sdk_level |-> 0, xaa |-> [aud \in Audiences |-> "ok"]]
    /\ user_info = "None"
    /\ required_scope = "None"
    /\ xaaInfo = [aud \in Audiences |-> NoInfo]
    /\ xaaRequests = <<>>
    /\ vaultInfo = [aud \in VaultAudiences |-> NoToken]
    /\ chatResult = None
    /\ pmPc = "idle"
    /\ pmIn = [mcp_token |-> NoToken, google_token |-> NoToken,
               salesforce_token |-> NoToken, mcp_server |-> TRUE,
               calendar_tools |-> TRUE, client |-> TRUE]
    /\ response = NoResponse
    /\ messages = <<>>
    /\ tools_called = <<>>
    /\ xaa_tools_called = <<>>
    /\ vault_tools_called = <<>>
    /\ salesforce_tools_called = <<>>
    /\ tool_results = <<>>
    /\ backendCalls = <<>>
    /\ allResults = <<>>
    /\ rounds = 0
    /\ pmResult = None
    /\ mock_events = InitialEvents
    /\ calReq = NoCall
    /\ calOut = None
    /\ calCalls = 0
    /\ seedIn = None
    /\ seedOut = None

XaaInit ==
    /\ mcpReq = NoRequest
    /\ mcpOut = None
    /\ mcpExecuted = FALSE
    /\ clientUpdates = {}
    /\ mcpCalls = 0
    /\ turn = [t \in Turns |-> IdleTurn]
    /\ running = 0
    /\ cacheExchange = NoCall
    /\ scopeCalls = <<>>
    /\ xaaSdkLevel \in SdkLevels
    /\ xaaCalls = <<>>
    /\ traceIn = None
    /\ traceOut = None
    /\ vaultConfigured = TRUE
    /\ vault_token = NoToken
    /\ vault_token_expires_at = 0
    /\ now = 0
    /\ netA = 0
    /\ lastA = NoCall
    /\ lastB = NoCall
    /\ lastC = NoCall
    /\ chatPc = "idle"
    /\ chatIn = [text |-> <<>>, id_token |-> FALSE, id_valid |-> FALSE,
                 sdk_level |-> 0, xaa |-> [aud \in Audiences |-> "ok"]]
    /\ user_info = "None"
    /\ required_scope = "None"
    /\ xaaInfo = [aud \in Audiences |-> NoInfo]
    /\ xaaRequests = <<>>
    /\ vaultInfo = [aud \in VaultAudiences |-> NoToken]
    /\ chatResult = None
    /\ pmPc = "idle"
    /\ pmIn = [mcp_token |-> NoToken, google_token |-> NoToken,
               salesforce_token |-> NoToken, mcp_server |-> TRUE,
               calendar_tools |-> TRUE, client |-> TRUE]
    /\ response = NoResponse
    /\ messages = <<>>
    /\ tools_called = <<>>
    /\ xaa_tools_called = <<>>
    /\ vault_tools_called = <<>>
    /\ salesforce_tools_called = <<>>
    /\ tool_results = <<>>
    /\ backendCalls = <<>>
    /\ allResults = <<>>
    /\ rounds = 0
    /\ pmResult = None
    /\ mock_events = InitialEvents
    /\ calReq = NoCall
    /\ calOut = None
    /\ calCalls = 0
    /\ seedIn = None
    /\ seedOut = None

TraceInit ==
    /\ mcpReq = NoRequest
    /\ mcpOut = None
    /\ mcpExecuted = FALSE
    /\ clientUpdates = {}
    /\ mcpCalls = 0
    /\ turn = [t \in Turns |-> IdleTurn]
    /\ running = 0
    /\ cacheExchange = NoCall
    /\ scopeCalls = <<>>
    /\ xaaSdkLevel = 0
    /\ xaaCalls = <<>>
    /\ traceIn \in {Some(in) : in \in TraceInputs}
    /\ traceOut = None
    /\ vaultConfigured = TRUE
    /\ vault_token = NoToken
    /\ vault_token_expires_at = 0
    /\ now = 0
    /\ netA = 0
    /\ lastA = NoCall
    /\ lastB = NoCall
    /\ lastC = NoCall
    /\ chatPc = "idle"
    /\ chatIn = [text |-> <<>>, id_token |-> FALSE, id_valid |-> FALSE,
                 sdk_level |-> 0, xaa |-> [aud \in Audiences |-> "ok"]]
    /\ user_info = "None"
    /\ required_scope = "None"
    /\ xaaInfo = [aud \in Audiences |-> NoInfo]
    /\ xaaRequests = <<>>
    /\ vaultInfo = [aud \in VaultAudiences |-> NoToken]
    /\ chatResult = None
    /\ pmPc = "idle"
    /\ pmIn = [mcp_token |-> NoToken, google_token |-> NoToken,
               salesforce_token |-> NoToken, mcp_server |-> TRUE,
               calendar_tools |-> TRUE, client |-> TRUE]
    /\ response = NoResponse
    /\ messages = <<>>
    /\ tools_called = <<>>
    /\ xaa_tools_called = <<>>
    /\ vault_tools_called = <<>>
    /\ salesforce_tools_called = <<>>
    /\ tool_results = <<>>
    /\ backendCalls = <<>>
    /\ allResults = <<>>
    /\ rounds = 0
    /\ pmResult = None
    /\ mock_events = InitialEvents
    /\ calReq = NoCall
    /\ calOut = None
    /\ calCalls = 0
    /\ seedIn = None
    /\ seedOut = None

\* GoogleCalendarTools as constructed, no call made yet.
CalInit ==
    /\ mcpReq = NoRequest
    /\ mcpOut = None
    /\ mcpExecuted = FALSE
    /\ clientUpdates = {}
    /\ mcpCalls = 0
    /\ turn = [t \in Turns |-> IdleTurn]
    /\ running = 0
    /\ cacheExchange = NoCall
    /\ scopeCalls = <<>>
    /\ xaaSdkLevel = 0
    /\ xaaCalls = <<>>
    /\ traceIn = None
    /\ traceOut = None
    /\ vaultConfigured = TRUE
    /\ vault_token = NoToken
    /\ vault_token_expires_at = 0
    /\ now = 0
    /\ netA = 0
    /\ lastA = NoCall
    /\ lastB = NoCall
    /\ lastC = NoCall
    /\ chatPc = "idle"
    /\ chatIn = [text |-> <<>>, id_token |-> FALSE, id_valid |-> FALSE,
                 sdk_level |-> 0, xaa |-> [aud \in Audiences |-> "ok"]]
    /\ user_info = "None"
    /\ required_scope = "None"
    /\ xaaInfo = [aud \in Audiences |-> NoInfo]
    /\ xaaRequests = <<>>
    /\ vaultInfo = [aud \in VaultAudiences |-> NoToken]
    /\ chatResult = None
    /\ pmPc = "idle"
    /\ pmIn = [mcp_token |-> NoToken, google_token |-> NoToken,
               salesforce_token |-> NoToken, mcp_server |-> TRUE,
               calendar_tools |-> TRUE, client |-> TRUE]
    /\ response = NoResponse
    /\ messages = <<>>
    /\ tools_called = <<>>
    /\ xaa_tools_called = <<>>
    /\ vault_tools_called = <<>>
    /\ salesforce_tools_called = <<>>
    /\ tool_results = <<>>
    /\ backendCalls = <<>>
    /\ allResults = <<>>
    /\ rounds = 0
    /\ pmResult = None
    /\ mock_events = InitialEvents
    /\ calReq = NoCall
    /\ calOut = None
    /\ calCalls = 0
    /\ seedIn = None
    /\ seedOut = None

\* process_message is about to be called with a history.
SeedInit ==
    /\ mcpReq = NoRequest
    /\ mcpOut = None
    /\ mcpExecuted = FALSE
    /\ clientUpdates = {}
    /\ mcpCalls = 0
    /\ turn = [t \in Turns |-> IdleTurn]
    /\ running = 0
    /\ cacheExchange = NoCall
    /\ scopeCalls = <<>>
    /\ xaaSdkLevel = 0
    /\ xaaCalls = <<>>
    /\ traceIn = None
    /\ traceOut = None
    /\ vaultConfigured = TRUE
    /\ vault_token = NoToken
    /\ vault_token_expires_at = 0
    /\ now = 0
    /\ netA = 0
    /\ lastA = NoCall
    /\ lastB = NoCall
    /\ lastC = NoCall
    /\ chatPc = "idle"
    /\ chatIn = [text |-> <<>>, id_token |-> FALSE, id_valid |-> FALSE,
                 sdk_level |-> 0, xaa |-> [aud \in Audiences |-> "ok"]]
    /\ user_info = "None"
    /\ required_scope = "None"
    /\ xaaInfo = [aud \in Audiences |-> NoInfo]
    /\ xaaRequests = <<>>
    /\ vaultInfo = [aud \in VaultAudiences |-> NoToken]
    /\ chatResult = None
    /\ pmPc = "idle"
    /\ pmIn = [mcp_token |-> NoToken, google_token |-> NoToken,
               salesforce_token |-> NoToken, mcp_server |-> TRUE,
               calendar_tools |-> TRUE, client |-> TRUE]
    /\ response = NoResponse
    /\ messages = <<>>
    /\ tools_called = <<>>
    /\ xaa_tools_called = <<>>
    /\ vault_tools_called = <<>>
    /\ salesforce_tools_called = <<>>
    /\ tool_results = <<>>
    /\ backendCalls = <<>>
    /\ allResults = <<>>
    /\ rounds = 0
    /\ pmResult = None
    /\ mock_events = InitialEvents
    /\ calReq = NoCall
    /\ calOut = None
    /\ calCalls = 0
    /\ seedIn \in {Some(h) : h \in Histories}
    /\ seedOut = None

SpecMCP == MCPInit /\ [][MCPNext]_vars

SpecTurns == TurnsInit /\ [][TurnsNext]_vars

SpecScope == ScopeInit /\ [][ScopeNext]_vars

SpecXaa == XaaInit /\ [][XaaNext]_vars

SpecTrace == TraceInit /\ [][TraceNext]_vars

SpecCal == CalInit /\ [][CalNext]_vars

SpecSeed == SeedInit /\ [][SeedNext]_vars

SpecVault == VaultInit /\ [][VaultNext]_vars

SpecProc == PMInit /\ [][PMNext]_vars

SpecChat == ChatInit /\ [][ChatNext]_vars


(***************************************************************************)
(* Properties of the token vault (SpecVault)                               *)
(***************************************************************************)
\* C1: every connection token get_connection_token returns was obtained by
\* presenting a vault token that Step A derived from the access token of the
\* connection's own audience (google for google-oauth2, salesforce for
\* salesforce); a vault token of another audience is never presented for it.
C1_NoCrossAudienceChaining ==
    (lastB.called /\ Truthy(lastB.ret)) =>
        /\ lastB.presented.kind = "vault"
        /\ lastB.presented.aud = ConnectionAudience(lastB.connection)

\* C7: a vault token requested while the cached token of the same audience
\* is still inside its validity window is served from the cache: the same
\* token value comes back and no network exchange is made for the request.
C7_SecondRequestServedFromCache ==
    (/\ lastA.called
     /\ Truthy(lastA.valid_before)
     /\ lastA.subject.aud = lastA.valid_before.aud) =>
        /\ lastA.net = 0
        /\ lastA.ret = lastA.valid_before

\* C8: get_connection_token called without a supplied vault token never
\* presents a cached token that was invalidated, by clear_cache or by its
\* cached expiry time having passed.
C8_InvalidatedTokenNotPresented ==
    (lastB.called /\ ~lastB.supplied /\ lastB.sent) => ~lastB.cache_expired


\* C18: in get_google_token / get_salesforce_token called with a source
\* token, get_connection_token is called only when Step A returned a token;
\* when Step A failed no Step B request is sent and the composite returns no
\* token.
C18_StepBOnlyAfterStepA ==
    (lastC.called /\ lastC.with_source) =>
        /\ lastC.step_b_called => lastC.step_a_ok
        /\ ~lastC.step_a_ok =>
              /\ ~lastC.step_b_called
              /\ ~lastC.step_b_sent
              /\ ~lastC.returned_token

\* C18 witness: a composite call with a source token whose Step A failed
\* while the client was configured and an earlier exchange's token was still
\* cached, so that a Step B request would have had a token to present.
C18_Witness ==
    /\ lastC.called
    /\ lastC.with_source
    /\ ~lastC.step_a_ok
    /\ vaultConfigured
    /\ Truthy(vault_token)

\* What a failed get_connection_token call tells its caller: the value
\* returned, which is None on every failing path.
ReportedFailure(b) == IF Truthy(b.ret) THEN "no failure" ELSE "None"

\* C19: a failed get_connection_token call reports its failure class: not
\* configured, connection not linked by the user, or transient (a timeout).
C19_StepBFailureIsTyped ==
    lastB.called =>
        /\ lastB.outcome = "not_configured" =>
              ReportedFailure(lastB) = "not_configured"
        /\ lastB.outcome = "not_linked" =>
              ReportedFailure(lastB) = "not_linked"
        /\ lastB.outcome = "timeout" =>
              ReportedFailure(lastB) = "transient"

\* C27: the vault-token cache is keyed by calling audience: when Step A
\* succeeds for one audience while the token of a different audience is
\* cached and inside its window, that other audience's token is still cached
\* afterwards.
C27_CacheKeptPerAudience ==
    (/\ lastA.called
     /\ Truthy(lastA.ret)
     /\ Truthy(lastA.valid_before)
     /\ lastA.valid_before.aud # lastA.subject.aud
     /\ vault_token = lastA.ret) =>
        lastA.valid_before \in CachedTokens

\* A recorded Step A call failed: the client was not configured, the answer
\* was not 200, the request timed out, or handling the answer raised.
StepAFailed(a) ==
    \/ a.net = 0
    \/ a.outcome \in {"denied", "timeout"}
    \/ a.outcome = "ok" /\ ~Truthy(a.ret)

\* C36: a Step A exchange that fails (missing configuration, non-200
\* answer, timeout or any exception) returns null and leaves the cached
\* vault token and its cached expiry as they were before the call.
C36_FailedStepALeavesCache ==
    [][(/\ lastA'.called
        /\ (lastA' # lastA \/ netA' # netA)
        /\ StepAFailed(lastA')) =>
           /\ ~Truthy(lastA'.ret)
           /\ vault_token' = vault_token
           /\ vault_token_expires_at' = vault_token_expires_at]_vars

(***************************************************************************)
(* Properties of process_message (SpecProc)                                *)
(***************************************************************************)
\* The audience whose token a backend may be given.
BackendAudience(backend) ==
    IF backend = "mcp" THEN "mcp"
    ELSE IF backend = "calendar" THEN "google"
    ELSE "salesforce"

\* The backend that serves the tools of a routing list.
ListBackend(tool_name) ==
    IF tool_name \in SeqToSet(MCP_TOOLS) THEN "mcp"
    ELSE IF tool_name \in SeqToSet(CALENDAR_TOOLS) THEN "calendar"
    ELSE IF tool_name \in SeqToSet(SALESFORCE_TOOLS) THEN "salesforce"
    ELSE "none"

InNoRoutingList(tool_name) ==
    tool_name \notin (SeqToSet(MCP_TOOLS) \cup SeqToSet(CALENDAR_TOOLS)
                      \cup SeqToSet(SALESFORCE_TOOLS))

\* C2: every backend call is made to the backend of the tool's routing list
\* and the token handed to it, when there is one, is the token of that
\* backend's audience: MCP tools get only the MCP token, calendar tools only
\* the Google token, Salesforce tools only the Salesforce token.
C2_BackendGetsOwnFlowToken ==
    \A i \in 1..Len(backendCalls) :
        LET c == backendCalls[i]
        IN /\ c.backend = ListBackend(c.tool)
           /\ Truthy(c.token) => c.token.aud = BackendAudience(c.backend)
           /\ c.backend = "mcp" => c.token = pmIn.mcp_token
           /\ c.backend = "calendar" => c.token = pmIn.google_token
           /\ c.backend = "salesforce" => c.token = pmIn.salesforce_token

\* C2 witness: in a turn that holds all three tokens, a calendar tool and a
\* tool of another flow were both handed to their backends with a token.
C2_Witness ==
    /\ Truthy(pmIn.mcp_token) /\ Truthy(pmIn.google_token)
    /\ Truthy(pmIn.salesforce_token)
    /\ \E i, j \in 1..Len(backendCalls) :
          /\ backendCalls[i].backend = "calendar"
          /\ Truthy(backendCalls[i].token)
          /\ backendCalls[j].backend \in {"mcp", "salesforce"}
          /\ Truthy(backendCalls[j].token)

\* C4: a requested tool that is in none of the routing lists gets the
\* unknown-tool error as its result, no backend is invoked for it, its
\* result is fed back under the id of its request (it is not dropped), and
\* it never makes the turn end in the unexpected-error result.
C4_UnknownToolIsErrorResult ==
    /\ \A i \in 1..Len(backendCalls) : ~InNoRoutingList(backendCalls[i].tool)
    /\ \A k \in 1..Len(tools_called) :
          InNoRoutingList(tools_called[k]) =>
              \E i \in 1..Len(allResults) :
                  /\ allResults[i].tool_use_id = k
                  /\ allResults[i].tool = tools_called[k]
                  /\ allResults[i].result.error = "Unknown tool"
                  /\ allResults[i].result.status = "none"
    /\ (pmPc = "done" /\ pmResult = ErrorResult("An unexpected error occurred")) =>
          /\ tools_called # <<>>
          /\ ~InNoRoutingList(tools_called[Len(tools_called)])

\* C4 witness: an unknown tool got its error result and a later request of
\* the turn was still served by a backend.
C4_Witness ==
    \E i, j \in 1..Len(allResults) :
        /\ i < j
        /\ InNoRoutingList(allResults[i].tool)
        /\ allResults[i].result.error = "Unknown tool"
        /\ ~InNoRoutingList(allResults[j].tool)
        /\ allResults[j].result.error = "none"
        /\ \E c \in 1..Len(backendCalls) : backendCalls[c].tool = allResults[j].tool

\* The tools that would have had to run for a narrative's claim to be true
\* (empty: the narrative claims no completed side effect).
ClaimRequiredTools(text) ==
    IF text = "I've successfully scheduled the meeting." THEN {"create_calendar_event"}
    ELSE IF text = "The meeting has been cancelled." THEN {"cancel_calendar_event"}
    ELSE {}

ClaimCaveat == "unverified-claim caveat"

\* Whether a returned mapping flags its narrative as unverified.
FlaggedUnverified(result) ==
    /\ \E i \in 1..Len(result.content) : result.content[i] = ClaimCaveat
    /\ "claim_unverified" \in DOMAIN result
    /\ result.claim_unverified

\* C5: a final narrative that claims a completed side effect while none of
\* the tools the claim requires was called is returned with the caveat and
\* claim_unverified true; with a required tool called, no caveat is added.
C5_UnverifiedClaimIsFlagged ==
    (pmPc = "done" /\ pmResult.agent_type # "Error") =>
        \A i \in 1..Len(response.content) :
            LET required == ClaimRequiredTools(response.content[i].text)
            IN /\ (required # {} /\ required \cap SeqToSet(tools_called) = {})
                     => FlaggedUnverified(pmResult)
               /\ (required \cap SeqToSet(tools_called) # {})
                     => ~FlaggedUnverified(pmResult)

\* A cap on the rounds of the loop, below what the oracle can ask for.
RoundLimit == MaxCalls - 1

\* C6: the tool-calling loop runs at most a fixed number of rounds.
C6_RoundsAreCapped == rounds <= RoundLimit

\* Whether the token of the flow a tool is routed to is missing.
FlowTokenMissing(tool_name) ==
    \/ ListBackend(tool_name) = "mcp" /\ ~Truthy(pmIn.mcp_token)
    \/ ListBackend(tool_name) = "calendar" /\ ~Truthy(pmIn.google_token)
    \/ ListBackend(tool_name) = "salesforce" /\ ~Truthy(pmIn.salesforce_token)

\* C9: a tool call whose flow's token is missing gets an error result that
\* reports nothing as performed, and the turn does not end in the
\* unexpected-error result because of it.
C9_MissingTokenGivesUnavailable ==
    /\ \A i \in 1..Len(allResults) :
          FlowTokenMissing(allResults[i].tool) =>
              /\ allResults[i].result.error # "none"
              /\ allResults[i].result.status = "none"
    /\ (pmPc = "done" /\ pmResult = ErrorResult("An unexpected error occurred")) =>
          ~FlowTokenMissing(tools_called[Len(tools_called)])

\* How often a name occurs in a list.
Count(list, name) ==
    Cardinality({i \in 1..Len(list) : list[i] = name})

\* The list a flow's calls are recorded in.
FlowList(flow) ==
    IF flow = "mcp" THEN xaa_tools_called
    ELSE IF flow = "calendar" THEN vault_tools_called
    ELSE IF flow = "salesforce" THEN salesforce_tools_called
    ELSE <<>>

\* C21: the flow a tool name resolves to depends on the name alone: every
\* resolution of a name, in whatever round and with whatever tokens the turn
\* holds, is recorded under the one flow of the name's routing list (XAA for
\* MCP tools, vault-Google for calendar tools, vault-Salesforce for
\* Salesforce tools) and under no other; a name in no list under none.
C21_FlowDependsOnNameOnly ==
    \A name \in SeqToSet(tools_called) :
        \A flow \in {"mcp", "calendar", "salesforce"} :
            Count(FlowList(flow), name) =
                IF flow = ListBackend(name) THEN Count(tools_called, name) ELSE 0

\* C21 witness: the same MCP tool name was resolved in two different rounds
\* of a turn that holds no MCP token.
C21_Witness ==
    /\ ~Truthy(pmIn.mcp_token)
    /\ rounds >= 2
    /\ Len(tools_called) >= 2
    /\ tools_called[1] = tools_called[Len(tools_called)]
    /\ ListBackend(tools_called[1]) = "mcp"
    /\ Len(response.content) = 1
    /\ Len(xaa_tools_called) = 2

\* The routing lists a name is in.
ListsHolding(name) ==
    {l \in {"mcp", "calendar", "salesforce"} :
        name \in SeqToSet(IF l = "mcp" THEN MCP_TOOLS
                          ELSE IF l = "calendar" THEN CALENDAR_TOOLS
                          ELSE SALESFORCE_TOOLS)}

\* C35: every tool offered to the oracle in a turn's catalog is in exactly
\* one of the routing lists, so it resolves to a flow and not to unknown;
\* and no name of any routing list is in two of them.
C35_OfferedToolsRouteToOneFlow ==
    /\ pmPc # "idle" =>
          \A name \in SeqToSet(OfferedTools(pmIn)) :
              /\ Cardinality(ListsHolding(name)) = 1
              /\ Route(name) \in ListsHolding(name)
    /\ \A name \in SeqToSet(MCP_TOOLS \o CALENDAR_TOOLS \o SALESFORCE_TOOLS) :
          Cardinality(ListsHolding(name)) = 1

\* C35 witness: with all three sources in the catalog, an offered tool of
\* each of two sources was requested and resolved to its flow.
C35_Witness ==
    /\ pmPc = "done"
    /\ pmIn.mcp_server /\ pmIn.calendar_tools
    /\ Len(OfferedTools(pmIn)) = 18
    /\ Len(tools_called) = 2
    /\ tools_called[1] = "update_client" /\ xaa_tools_called = <<"update_client">>
    /\ tools_called[2] = "create_salesforce_task"
    /\ salesforce_tools_called = <<"create_salesforce_task">>

\* The tool_use blocks of a response's content, in order.
RECURSIVE ToolUseBlocks(_, _)
ToolUseBlocks(content, i) ==
    IF i > Len(content) THEN <<>>
    ELSE (IF content[i].type = "tool_use" THEN <<content[i]>> ELSE <<>>)
         \o ToolUseBlocks(content, i + 1)

\* C29: in every round, the message fed back to the oracle holds exactly one
\* tool result per tool_use block of that round's response, in the same
\* order and under the same tool_use_id, and no result of an earlier round;
\* the oracle's next answer is there only once the round's results are.
C29_OneResultPerBlockPerRound ==
    /\ Len(messages) = (IF messages = <<>> THEN 0 ELSE 1 + 2 * rounds)
    /\ \A r \in 1..rounds :
          LET asked == ToolUseBlocks(messages[2 * r].content, 1)
              fed == messages[2 * r + 1].content
          IN /\ messages[2 * r].role = "assistant"
             /\ messages[2 * r + 1].role = "user"
             /\ Len(fed) = Len(asked)
             /\ \A k \in 1..Len(asked) :
                   /\ fed[k].tool_use_id = asked[k].id
                   /\ fed[k].tool = asked[k].name

\* C29 witness: two rounds were fed back, each with the one result of its
\* own tool_use block, and the oracle has answered the second.
C29_Witness ==
    /\ rounds = 2
    /\ Len(messages[3].content) = 1
    /\ Len(messages[5].content) = 1
    /\ messages[3].content[1].tool_use_id # messages[5].content[1].tool_use_id
    /\ response.stop_reason = "end_turn"

\* The names the oracle requested, round after round: those of the rounds
\* fed back and, past the loop, none more.
RECURSIVE RequestedNames(_)
RequestedNames(r) ==
    IF r = 0 THEN <<>>
    ELSE RequestedNames(r - 1)
         \o [k \in 1..Len(ToolUseBlocks(messages[2 * r].content, 1)) |->
                ToolUseBlocks(messages[2 * r].content, 1)[k].name]

\* C30: when process_message returns normally, tools_called lists every
\* requested tool name in request order across all rounds, each routable
\* name is in exactly one of xaa_tools, vault_tools and salesforce_tools, the
\* one of its flow, and every backend call made is in the trace.
C30_TraceListsEveryCall ==
    (pmPc = "done" /\ pmResult.agent_type # "Error") =>
        /\ tools_called = RequestedNames(rounds)
        /\ pmResult.tools_called =
              (IF tools_called = <<>> THEN None ELSE Some(tools_called))
        /\ tools_called # <<>> =>
              /\ pmResult.security_info # None
              /\ \A name \in SeqToSet(tools_called) :
                    LET info == pmResult.security_info.val
                        in_xaa == Count(info.xaa_tools, name)
                        in_vault == Count(info.vault_tools, name)
                        in_sf == Count(info.salesforce_tools, name)
                    IN /\ ListBackend(name) = "mcp" =>
                             in_xaa = Count(tools_called, name) /\ in_vault + in_sf = 0
                       /\ ListBackend(name) = "calendar" =>
                             in_vault = Count(tools_called, name) /\ in_xaa + in_sf = 0
                       /\ ListBackend(name) = "salesforce" =>
                             in_sf = Count(tools_called, name) /\ in_xaa + in_vault = 0
                       /\ ListBackend(name) = "none" => in_xaa + in_vault + in_sf = 0
        /\ \A i \in 1..Len(backendCalls) :
              backendCalls[i].tool \in SeqToSet(tools_called)
        /\ Len(backendCalls) <= Len(tools_called)

\* C30 witness: a turn returned normally after two rounds that called tools
\* of two different flows, a backend having been invoked.
C30_Witness ==
    /\ pmPc = "done" /\ pmResult.agent_type # "Error"
    /\ rounds = 2
    /\ Len(tools_called) = 2
    /\ ListBackend(tools_called[1]) # ListBackend(tools_called[2])
    /\ ListBackend(tools_called[1]) # "none"
    /\ backendCalls # <<>>

(***************************************************************************)
(* Properties of a chat turn (SpecChat)                                    *)
(***************************************************************************)
\* STEP 2 of the turn is behind it.
PastExchanges == chatPc \in {"vault_google", "vault_salesforce", "claude",
                             "in_process_message", "done"}

\* The exchange of an audience fails at one of its steps (a failed Step 2
\* is only logged), or cannot start for lack of its SDK instance.
ExchangeFails(aud) ==
    \/ ~SdkInstance(aud, chatIn.sdk_level)
    \/ chatIn.xaa[aud] \in {"step1_fail", "step3_fail"}

ExchangeSucceeds(aud) ==
    /\ SdkInstance(aud, chatIn.sdk_level)
    /\ chatIn.xaa[aud] = "ok"

\* C3: in a turn with an identity token, when the exchange for an audience A
\* fails and the steps of another audience B succeed, B's exchange was
\* attempted and returned B's access token, A got null, and the turn was
\* not aborted.
C3_FailedAudienceDoesNotBlockOthers ==
    (PastExchanges /\ chatIn.id_token /\ XaaIsConfigured(chatIn.sdk_level)) =>
        \A A \in Audiences, B \in Audiences :
            (A # B /\ ExchangeFails(A) /\ ExchangeSucceeds(B)) =>
                /\ \E i \in 1..Len(xaaRequests) : xaaRequests[i].audience = B
                /\ ~xaaInfo[B].none
                /\ xaaInfo[B].access_token = AccessToken(B)
                /\ xaaInfo[A].none
                /\ chatResult = None

\* C10: in a turn with an identity token, every audience that has an SDK
\* instance sends an exchange request, and every request carries the scope
\* decided from the last message.
C10_EveryExchangeUsesScopeDecision ==
    (PastExchanges /\ chatIn.id_token /\ XaaIsConfigured(chatIn.sdk_level)) =>
        /\ required_scope = detect_required_scope(chatIn.text)
        /\ \A aud \in Audiences :
              SdkInstance(aud, chatIn.sdk_level) =>
                  \E i \in 1..Len(xaaRequests) : xaaRequests[i].audience = aud
        /\ \A i \in 1..Len(xaaRequests) : xaaRequests[i].scope = required_scope

\* Two characters are the same letter, whatever their case.
SameLetter(a, b) ==
    \/ a = b
    \/ a \in DOMAIN UpperToLower /\ UpperToLower[a] = b
    \/ b \in DOMAIN UpperToLower /\ UpperToLower[b] = a

\* The keyword occurs in the text at some position, letters compared
\* whatever their case.
OccursIgnoringCase(keyword, text) ==
    \E start \in 0..(Len(text) - Len(keyword)) :
        \A k \in 1..Len(keyword) : SameLetter(text[start + k], keyword[k])

\* C11: detect_required_scope answers mcp:write for every text in which a
\* write keyword occurs, in any case, and mcp:read for every other text.
C11_ScopeFollowsWriteKeywords ==
    (chatPc # "start" /\ chatPc # "idle") =>
        required_scope =
            IF \E j \in 1..Len(WRITE_KEYWORDS) :
                   OccursIgnoringCase(WRITE_KEYWORDS[j], chatIn.text)
            THEN "mcp:write"
            ELSE "mcp:read"

\* C11 witness: a text with a keyword typed in capitals got the write scope.
C11_Witness ==
    /\ chatPc # "start" /\ chatPc # "idle"
    /\ chatIn.text = <<"S", "C", "H", "E", "D", "U", "L", "E", " ", "c", "a", "l", "l">>
    /\ required_scope = "mcp:write"

C13_OracleErrorIsReturned ==
    response.stop_reason = "api_error" =>
        /\ pmPc = "done"
        /\ pmResult = [content |-> <<"I encountered an error">>,
                       agent_type |-> "Error"]

\* C13 witness: the oracle failed in a later round, after tool results were
\* fed back, and the call returned the error narrative.
C13_Witness ==
    /\ response.stop_reason = "api_error"
    /\ rounds >= 1
    /\ allResults # <<>>
    /\ pmPc = "done"
    /\ pmResult.agent_type = "Error"


(***************************************************************************)
(* Properties of the internal backend (SpecMCP)                            *)
(***************************************************************************)
\* The latest call was a payment for a client that was found.
PaymentForClient ==
    /\ mcpReq.entry # "none"
    /\ mcpReq.user_info # "None"
    /\ mcpReq.tool_name = "process_payment"
    /\ ~FindClient(Get(mcpReq.arguments.client_identifier, Str(<<>>))).raised
    /\ FindClient(Get(mcpReq.arguments.client_identifier, Str(<<>>))).idx # 0

PaymentClient ==
    Clients[FindClient(Get(mcpReq.arguments.client_identifier, Str(<<>>))).idx]

RecipientBlocked ==
    /\ mcpReq.arguments.recipient.t = "str"
    /\ mcpReq.arguments.recipient.s \in blocked_recipients

\* The amount of the latest call is a number at or above the limit.
AmountAtLeast(limit) ==
    /\ mcpReq.arguments.amount.t = "int"
    /\ mcpReq.arguments.amount.n >= limit

\* C14: a payment for a compliant client without trading restrictions, to
\* a recipient that is not blocked, of an amount at or above the step-up
\* threshold, is answered step_up_required.
C14_StepUpAtOrAboveThreshold ==
    (/\ PaymentForClient
     /\ PaymentClient.compliance_status = "clear"
     /\ PaymentClient.trading_restrictions = <<>>
     /\ ~RecipientBlocked
     /\ AmountAtLeast(requires_step_up)) =>
        mcpOut.val.status = "step_up_required"

\* C16: POST /call_tool enters a tool function only when the request bore a
\* bearer token and verify_mcp_token returned claims for it.
C16_ToolRunsOnlyWithVerifiedToken ==
    (mcpReq.entry = "api" /\ mcpExecuted) =>
        (mcpReq.bearer /\ mcpReq.verified)

\* C20: call_tool returns a mapping for every tool name, argument mapping
\* and user context, never an exception; a payment for a client on
\* compliance hold or to a blocked recipient returns an error payload, and
\* one of an amount at or above the step-up threshold a status payload.
C20_CallToolReturnsMapping ==
    mcpReq.entry # "none" =>
        /\ ~mcpOut.none
        /\ mcpOut.val # Raise
        /\ mcpOut.val.error # "raise"
        /\ (PaymentForClient /\ PaymentClient.compliance_status # "clear") =>
              mcpOut.val.error = "payment_blocked"
        /\ (PaymentForClient /\ PaymentClient.compliance_status = "clear"
              /\ RecipientBlocked) =>
              mcpOut.val.error = "payment_blocked"
        /\ (PaymentForClient /\ PaymentClient.compliance_status = "clear"
              /\ ~RecipientBlocked /\ AmountAtLeast(requires_step_up)) =>
              mcpOut.val.status \in {"step_up_required", "compliance_review_required"}

\* C20 witness: a call whose client identifier is null, on which the lookup
\* raises, came back as an error mapping.
C20_Witness ==
    /\ mcpReq.entry = "call_tool"
    /\ mcpReq.tool_name = "process_payment"
    /\ mcpReq.arguments.client_identifier = Null
    /\ mcpOut = Some(Result("exception", "none", "none", "none"))


\* The latest call named a client that was found.
CallForClient ==
    /\ mcpReq.entry # "none"
    /\ mcpReq.user_info # "None"
    /\ ~FindClient(Get(mcpReq.arguments.client_identifier, Str(<<>>))).raised
    /\ FindClient(Get(mcpReq.arguments.client_identifier, Str(<<>>))).idx # 0

CalledClientIdx ==
    FindClient(Get(mcpReq.arguments.client_identifier, Str(<<>>))).idx

\* C32: for a client whose compliance_status is not clear, after any
\* sequence of calls, get_client and get_portfolio answer access_denied,
\* process_payment answers payment_blocked, list_clients does not show the
\* client, and update_client neither overwrites a field of the client nor
\* answers with the field's values.
C32_HeldClientIsDeniedEverywhere ==
    /\ \A i \in ListedClients : CheckCompliance(Clients[i])
    /\ \A u \in clientUpdates : CheckCompliance(Clients[u[1]])
    /\ (CallForClient /\ ~CheckCompliance(Clients[CalledClientIdx])) =>
          /\ mcpReq.tool_name \in {"get_client", "get_portfolio"} =>
                mcpOut.val.error = "access_denied"
          /\ mcpReq.tool_name = "process_payment" =>
                mcpOut.val.error = "payment_blocked"
          /\ mcpReq.tool_name = "update_client" =>
                mcpOut.val.status # "updated"

\* C33: a payment is never answered approved when the client is under
\* compliance hold, has a trading restriction containing NO, or the
\* recipient is on the blocked-recipient list, whatever the amount (a
\* number or not); the answer names the first of these three checks, in
\* that order, that applies.
C33_BlockedPaymentNeverApproved ==
    (PaymentForClient
       /\ (\/ ~CheckCompliance(PaymentClient)
           \/ HasTradingRestriction(PaymentClient)
           \/ RecipientBlocked)) =>
        /\ mcpOut.val.status # "approved"
        /\ mcpOut.val.error = "payment_blocked"
        /\ mcpOut.val.security_control =
              IF ~CheckCompliance(PaymentClient) THEN "FGA - Compliance Hold"
              ELSE IF HasTradingRestriction(PaymentClient) THEN "Trading Restriction"
              ELSE "Risk Policy - Blocked Recipient List"

\* C33 witness: a payment below the automatic-approval limit, for a client
\* in good standing, to a blocked recipient, was answered.
C33_Witness ==
    /\ PaymentForClient
    /\ CheckCompliance(PaymentClient)
    /\ ~HasTradingRestriction(PaymentClient)
    /\ RecipientBlocked
    /\ mcpReq.arguments.amount = Num(999)
    /\ mcpOut.val.error = "payment_blocked"

\* What _find_client answers for each identifier of the calls, worked out
\* once.
ClientLookup == [i \in Identifiers |-> FindClient(Get(i, Str(<<>>)))]

\* C37: get_client, list_clients, get_portfolio and process_payment leave
\* the client store as it was; update_client overwrites only the named
\* field, one of phone, email and address, of the one client it found, and
\* nothing when no client is found or another field is named.
C37_OnlyUpdateClientWritesStore ==
    [][LET args == mcpReq'.arguments
           found == ClientLookup[args.client_identifier]
       IN IF /\ mcpReq'.tool_name = "update_client"
             /\ mcpReq'.user_info # "None"
             /\ ~found.raised
             /\ found.idx # 0
             /\ args.field.t = "str"
             /\ args.field.s \in {"phone", "email", "address"}
          THEN clientUpdates' = clientUpdates \cup {<<found.idx, args.field.s>>}
          ELSE clientUpdates' = clientUpdates]_vars

\* C37 witness: a client's phone was overwritten, and a later payment call
\* left the store as the update had left it.
C37_Witness ==
    /\ mcpCalls = 2
    /\ mcpReq.tool_name = "process_payment"
    /\ clientUpdates = {<<1, "phone">>}


BlockAudience(pc) ==
    IF pc \in {"google_exchange", "google_composite"} THEN "google"
    ELSE IF pc \in {"salesforce_exchange", "salesforce_composite"} THEN "salesforce"
    ELSE "none"

C22_ScopeTotalAndDeterministic ==
    /\ \A i \in 1..Len(scopeCalls) :
          /\ scopeCalls[i].scope \in {"mcp:read", "mcp:write"}
          /\ scopeCalls[i].query = <<>> => scopeCalls[i].scope = "mcp:read"
    /\ \A i, j \in 1..Len(scopeCalls) :
          scopeCalls[i].query = scopeCalls[j].query =>
              scopeCalls[i].scope = scopeCalls[j].scope

\* C22 witness: the empty string was classified, then a text that came out
\* as a write, then the empty string again.
C22_Witness ==
    /\ Len(scopeCalls) >= 3
    /\ scopeCalls[1].query = <<>>
    /\ scopeCalls[2].scope = "mcp:write"
    /\ scopeCalls[3].query = <<>>

(***************************************************************************)
(* Properties of an audience's XAA exchange (SpecXaa)                      *)
(***************************************************************************)
\* C24: within one audience's exchange, Step 3 is sent only after Step 1
\* returned an ID-JAG, and it presents that ID-JAG together with the
\* authorization-server id of that same audience; when Step 1 fails the
\* exchange returns None and no Step 3 request is sent.
C24_Step3OnlyWithOwnIdJag ==
    \A i \in 1..Len(xaaCalls) :
        LET c == xaaCalls[i]
        IN /\ c.step3.sent =>
                 /\ c.step1.sent
                 /\ Truthy(c.id_jag)
                 /\ c.step3.id_jag_token = c.id_jag
                 /\ c.id_jag.aud = c.aud
                 /\ c.step3.authorization_server_id = AUTH_SERVER_IDS[c.aud]
                 /\ c.step3.authorization_server_id = c.step1.audience
           /\ (c.step1.sent /\ c.o.s1 = "raises") =>
                 /\ ~c.step3.sent
                 /\ c.info = NoInfo

\* C24 witness: an exchange for one audience obtained its token, and a later
\* exchange for another audience failed at Step 1.
C24_Witness ==
    /\ Len(xaaCalls) = 2
    /\ xaaCalls[1].step3.sent /\ xaaCalls[1].info # NoInfo
    /\ xaaCalls[2].aud # xaaCalls[1].aud
    /\ xaaCalls[2].step1.sent /\ xaaCalls[2].o.s1 = "raises"

\* C25: whatever Step 2 does (valid, invalid, raises), Step 3 is sent once
\* Step 1 returned an ID-JAG, and the exchange returns Step 3's token, or
\* None exactly when Step 3 raised.
C25_Step2NeverChangesResult ==
    \A i \in 1..Len(xaaCalls) :
        LET c == xaaCalls[i]
        IN (c.step1.sent /\ c.o.s1 = "ok") =>
              /\ c.step2
              /\ c.step3.sent
              /\ (c.info = NoInfo) <=> (c.o.s3 = "raises")
              /\ c.info # NoInfo => c.info.access_token.aud = c.aud

\* C25 witness: one exchange whose Step 2 raised and one whose Step 2
\* reported the ID-JAG invalid both returned Step 3's token.
C25_Witness ==
    /\ Len(xaaCalls) = 2
    /\ xaaCalls[1].o.s2 = "raises" /\ xaaCalls[1].info # NoInfo
    /\ xaaCalls[2].o.s2 = "invalid" /\ xaaCalls[2].info # NoInfo

(***************************************************************************)
(* Properties of the response a chat turn returns (SpecTrace)              *)
(***************************************************************************)
\* The token values a returned response carries in its per-audience entries.
TokensReturned(resp) ==
    UNION {IF resp.xaa_info[aud] = None THEN {}
           ELSE {resp.xaa_info[aud].val.id_jag_token,
                 resp.xaa_info[aud].val.access_token} : aud \in Audiences}
    \cup UNION {IF resp.token_vault_info[aud] = None THEN {}
                ELSE {resp.token_vault_info[aud].val.vault_token,
                      resp.token_vault_info[aud].val.token} : aud \in VaultAudiences}

C15_NoIdentityBlocksOnlyExchanges ==
    (/\ chatPc \in {"in_process_message", "done"}
     /\ (~chatIn.id_token \/ ~chatIn.id_valid)) =>
        /\ xaaRequests = <<>>
        /\ netA = 0
        /\ ~lastB.called
        /\ chatPc = "in_process_message"
        /\ chatResult = None

\* C31: a turn on a service whose XAA manager or vault lacks configuration
\* sends no exchange request to the unconfigured component, holds none of
\* its tokens, and still reaches the tool loop: it does not end in an error
\* response.
C31_UnconfiguredTurnStillRunsToolLoop ==
    (/\ chatPc \in {"in_process_message", "done"}
     /\ (~XaaIsConfigured(chatIn.sdk_level) \/ ~vaultConfigured)) =>
        /\ ~XaaIsConfigured(chatIn.sdk_level) =>
              /\ xaaRequests = <<>>
              /\ \A aud \in Audiences : xaaInfo[aud].none
        /\ ~vaultConfigured =>
              /\ netA = 0
              /\ ~lastB.called
              /\ \A aud \in VaultAudiences : ~Truthy(vaultInfo[aud])
        /\ chatPc = "in_process_message"
        /\ chatResult = None

(***************************************************************************)
(* Properties of the calendar write tools (SpecCal)                        *)
(***************************************************************************)
\* C34: a calendar write tool called with a Google connection token answers
\* created or cancelled only if the Google API call made with that token
\* succeeded; when that call failed the answer is an error.
C34_WriteSucceedsOnlyIfApiDid ==
    (calReq.called /\ calReq.has_token /\ calOut.val # Raise) =>
        /\ calOut.val.status \in {"created", "cancelled"} => calReq.api = "ok"
        /\ calReq.api = "fail" => calOut.val.error # "none"

\* C38: after any sequence of create and cancel calls on the mock calendar
\* the ids of the stored events are pairwise distinct.
C38_MockEventIdsDistinct ==
    \A i \in 1..Len(mock_events), j \in 1..Len(mock_events) :
        i # j => mock_events[i] # mock_events[j]

(***************************************************************************)
(* Properties of the first oracle call's message list (SpecSeed)           *)
(***************************************************************************)
\* C39: the message list of the first oracle call consists of at most the
\* 10 most recent history entries, in their original order, followed by the
\* new user message as its last entry.
C39_WindowOfRecentHistory ==
    seedOut # None =>
        LET h == seedIn.val
            out == seedOut.val
            k == IF Len(h) < HistoryWindow THEN Len(h) ELSE HistoryWindow
        IN /\ Len(out) = k + 1
           /\ out[k + 1] = [role |-> "user", content |-> 0]
           /\ \A i \in 1..k :
                 /\ out[i].content = h[Len(h) - k + i].content
                 /\ out[i].role = h[Len(h) - k + i].role

\* C39 witness: the list was built from a history longer than the window.
C39_Witness ==
    /\ seedOut # None
    /\ Len(seedIn.val) > HistoryWindow
    /\ seedOut.val[1].content = 2

====
